---- MODULE Spec2Model ----
(***************************************************************************)
(* Model of the event-driven HTML renderer of pulldown-html-ext: the       *)
(* Writer operations (html/writer.rs), the render state (html/state.rs)    *)
(* and the Renderer loop with its image lookahead (html/mod.rs).           *)
(*                                                                         *)
(* Text is a sequence of atoms: an atom is one character of an event       *)
(* payload, or one literal chunk of markup written by the code.  The sink  *)
(* contents `out` is the flat sequence of atoms accepted so far.           *)
(***************************************************************************)
EXTENDS Integers, Sequences, FiniteSets, TLC

VARIABLES
    events,      \* the parser's event sequence (the iterator handed to run)
    pos,         \* iterator cursor: index of the next event the iterator yields
    config,      \* HtmlConfig, read-only during a render
    state,       \* HtmlState owned by the writer
    out,         \* atoms accepted by the output sink
    attempts,    \* number of write calls made on the sink
    failAt,      \* the sink rejects its failAt-th write call (0: never)
    sinkErr,     \* the error value the sink returns when it rejects a write
    entry,       \* entry point that drives the render
    pc,          \* "running" | "done" | "panicked"; "dirty" | "reset" for a
                 \* state a caller resets by hand; "macro" | "expanded" for
                 \* an expansion of the html_writer macro
    last,        \* the Writer operation run invoked last: its event, its result,
                 \* and the sink length, write count and HtmlState it started from
    dispatched,  \* indexes of the events run dispatched to a Writer operation
    ret,         \* what the entry point returned to its caller
    stderr,      \* lines printed with eprintln!
    queue,       \* event sequences the caller renders next, same configuration
    earlier,     \* the HtmlState each earlier render ended with
    rendered,    \* the events and the output of each earlier render
    input,       \* the attribute and the item handed to the html_writer macro
    expanded,    \* what the html_writer macro returned
    current_lang, \* SyntectWriter::current_lang, the language of the open code block
    arg,         \* the argument of a function a caller applies on its own
    result       \* what that function returned

vars == <<events, pos, config, state, out, attempts, failAt, sinkErr, entry,
          pc, last, dispatched, ret, stderr, queue, earlier, rendered, input,
          expanded, current_lang, arg, result>>

(***************************************************************************)
(* Bounds of the model                                                     *)
(***************************************************************************)
MaxBlocks == 2
MaxRows == 2
MaxCols == 2
MaxListDepth == 2
MaxAltNest == 2
MaxFailAt == 6
MaxRenders == 2
MaxEntries == 2
MaxIdLen == 4
MaxCutNest == 1

(***************************************************************************)
(* Generic helpers                                                         *)
(***************************************************************************)
RECURSIVE Flatten(_)
Flatten(ss) == IF ss = <<>> THEN <<>> ELSE Head(ss) \o Flatten(Tail(ss))

RECURSIVE Repeat(_, _)
Repeat(s, k) == IF k = 0 THEN <<>> ELSE s \o Repeat(s, k - 1)

Last(s) == s[Len(s)]

Reverse(s) == [i \in 1..Len(s) |-> s[Len(s) + 1 - i]]

\* a literal chunk of markup, written by one write_str call
L(s) == <<s>>

(***************************************************************************)
(* Events (pulldown_cmark::Event / Tag), with the payload the Writer reads *)
(***************************************************************************)
NoNum == [some |-> FALSE, hi |-> 0, lo |-> 0]
\* Some(n) with n = hi * 2^32 + lo, an unsigned 64-bit starting number
Num(hi, lo) == [some |-> TRUE, hi |-> hi, lo |-> lo]

\* Option<..>: None, or Some(v)
None == [some |-> FALSE, val |-> <<>>]
Some(v) == [some |-> TRUE, val |-> v]

Ev0 == [t |-> "", tag |-> "", text |-> <<>>, num |-> NoNum, aligns |-> <<>>,
        dest |-> <<>>, title |-> <<>>, checked |-> FALSE,
        level |-> 0, id |-> None, classes |-> <<>>, attrs |-> <<>>,
        kind |-> "", info |-> <<>>]

Start(tag) == [Ev0 EXCEPT !.t = "Start", !.tag = tag]
End(tag) == [Ev0 EXCEPT !.t = "End", !.tag = tag]
Text(s) == [Ev0 EXCEPT !.t = "Text", !.text = s]
Code(s) == [Ev0 EXCEPT !.t = "Code", !.text = s]
Html(s) == [Ev0 EXCEPT !.t = "Html", !.text = s]
SoftBreak == [Ev0 EXCEPT !.t = "SoftBreak"]
HardBreak == [Ev0 EXCEPT !.t = "HardBreak"]
Rule == [Ev0 EXCEPT !.t = "Rule"]
FootnoteReference(name) == [Ev0 EXCEPT !.t = "FootnoteReference", !.text = name]
TaskListMarker(c) == [Ev0 EXCEPT !.t = "TaskListMarker", !.checked = c]

StartList(num) == [Start("List") EXCEPT !.num = num]
EndList(num) == [End("List") EXCEPT !.num = num]
StartTable(aligns) == [Start("Table") EXCEPT !.aligns = aligns]
StartFootnoteDefinition(name) == [Start("FootnoteDefinition") EXCEPT !.text = name]
StartImage(dest, title) == [Start("Image") EXCEPT !.dest = dest, !.title = title]
\* Tag::Heading { level, id, classes, attrs }
StartHeading(level, id, classes, attrs) ==
    [Start("Heading") EXCEPT !.level = level, !.id = id, !.classes = classes,
                             !.attrs = attrs]
EndHeading(level) == [End("Heading") EXCEPT !.level = level]
\* Tag::CodeBlock(CodeBlockKind::Fenced(info)) and CodeBlockKind::Indented
StartCodeBlock(kind, info) == [Start("CodeBlock") EXCEPT !.kind = kind, !.info = info]
StartLink(dest, title) == [Start("Link") EXCEPT !.dest = dest, !.title = title]

(***************************************************************************)
(* HtmlState (html/state.rs)                                               *)
(***************************************************************************)
Ordered(n) == [kind |-> "Ordered", n |-> n]
Unordered == [kind |-> "Unordered", n |-> 0]

HtmlState_new ==
    [numbers |-> <<>>,
     table_state |-> "NotInTable",
     table_cell_index |-> 0,
     table_alignments |-> <<>>,
     list_stack |-> <<>>,
     link_stack |-> <<>>,
     heading_stack |-> <<>>,
     currently_in_code_block |-> FALSE,
     currently_in_footnote |-> FALSE]

\* HtmlState::reset
HtmlState_reset(hs) ==
    [hs EXCEPT !.numbers = <<>>,
               !.table_state = "NotInTable",
               !.table_cell_index = 0,
               !.table_alignments = <<>>,
               !.list_stack = <<>>,
               !.link_stack = <<>>,
               !.heading_stack = <<>>,
               !.currently_in_code_block = FALSE]

in_table(hs) == hs.table_state # "NotInTable"

in_table_header(hs) == hs.table_state = "InHeader"

list_depth(hs) == Len(hs.list_stack)

(***************************************************************************)
(* HtmlConfig (html/config.rs)                                             *)
(***************************************************************************)
NoAttributes == [e \in {} |-> <<>>]

\* an empty HashMap<u8, String> of level classes
NoLevelClasses == [l \in {} |-> <<>>]

\* mutant: the default configuration escapes text and breaks lines as written
HtmlConfig_default_escaping ==
    [escape_html |-> TRUE,
     break_on_newline |-> FALSE,
     xhtml_style |-> FALSE,
     add_ids |-> TRUE,
     id_prefix |-> <<"heading-">>,
     level_classes |-> NoLevelClasses,
     nofollow_external |-> TRUE,
     open_external_blank |-> TRUE,
     default_language |-> None,
     element_attributes |-> NoAttributes,
     syntect |-> [some |-> FALSE, theme |-> "", inject_css |-> FALSE]]

HtmlConfig_default ==
    [escape_html |-> FALSE,
     break_on_newline |-> TRUE,
     xhtml_style |-> FALSE,
     add_ids |-> TRUE,
     id_prefix |-> <<"heading-">>,
     level_classes |-> NoLevelClasses,
     nofollow_external |-> TRUE,
     open_external_blank |-> TRUE,
     default_language |-> None,
     element_attributes |-> NoAttributes,
     syntect |-> [some |-> FALSE, theme |-> "", inject_css |-> FALSE]]

\* HashMap::get on element_attributes; the sequence is the map's iteration order
ElementAttributes(cfg, element) ==
    IF element \in DOMAIN cfg.element_attributes
    THEN cfg.element_attributes[element] ELSE <<>>

(***************************************************************************)
(* Escaping (pulldown_cmark_escape), atom by atom                          *)
(***************************************************************************)
EscapeHtmlAtom(c) ==
    CASE c = "\"" -> "&quot;"
      [] c = "&" -> "&amp;"
      [] c = "<" -> "&lt;"
      [] c = ">" -> "&gt;"
      [] c = "'" -> "&#39;"
      [] OTHER -> c

escape_html(s) == [i \in 1..Len(s) |-> EscapeHtmlAtom(s[i])]

EscapeBodyAtom(c) ==
    CASE c = "&" -> "&amp;"
      [] c = "<" -> "&lt;"
      [] c = ">" -> "&gt;"
      [] OTHER -> c

escape_html_body_text(s) == [i \in 1..Len(s) |-> EscapeBodyAtom(s[i])]

EscapeHrefAtom(c) ==
    CASE c = "&" -> "&amp;"
      [] c = "'" -> "&#x27;"
      [] c = "<" -> "%3C"
      [] c = ">" -> "%3E"
      [] c = "\"" -> "%22"
      [] c = " " -> "%20"
      [] c = "\n" -> "%0A"
      [] c = "\r" -> "%0D"
      [] c = "\t" -> "%09"
      [] OTHER -> c

escape_href(s) == [i \in 1..Len(s) |-> EscapeHrefAtom(s[i])]

(***************************************************************************)
(* The sink and write_str                                                  *)
(***************************************************************************)
Ok == [variant |-> "Ok", inner |-> "-"]

\* HtmlError::Write(std::fmt::Error), built by every map_err of the writer
HtmlError_Write == [variant |-> "Write", inner |-> "fmt::Error"]

IsErr(w) == w.res.variant # "Ok"

\* StrWrite::write_str of the sink: the failAt-th call is rejected
SinkAccepts(n) == failAt = 0 \/ n # failAt

\* HtmlWriter::write_str; also the direct escape_*(self.get_writer(), ..) calls
write_str(w, s) ==
    IF SinkAccepts(w.n + 1)
    THEN [w EXCEPT !.out = @ \o s, !.n = @ + 1, !.res = Ok]
    ELSE [w EXCEPT !.n = @ + 1, !.res = HtmlError_Write]

\* a run of write calls chained with `?`: stops at the first rejected one
RECURSIVE write_all(_, _)
write_all(w, frags) ==
    IF frags = <<>> THEN [w EXCEPT !.res = Ok]
    ELSE LET w1 == write_str(w, Head(frags))
         IN IF IsErr(w1) THEN w1 ELSE write_all(w1, Tail(frags))

\* the writes that follow a `?`: skipped when an earlier call has failed
and_then(w, frags) == IF IsErr(w) THEN w ELSE write_all(w, frags)

RECURSIVE AttrString(_)
AttrString(attrs) ==
    IF attrs = <<>> THEN <<>>
    ELSE <<" ", Head(attrs)[1], "=\"", Head(attrs)[2], "\"">> \o AttrString(Tail(attrs))

\* the write calls write_attributes makes: one, or none when the string is empty
write_attributes(cfg, element) ==
    LET attrs_string == AttrString(ElementAttributes(cfg, element))
    IN IF attrs_string # <<>> THEN <<attrs_string>> ELSE <<>>

(***************************************************************************)
(* Writer operations (HtmlWriter default methods, html/writer.rs).  A      *)
(* writer value w is [hs: HtmlState, out, n: write calls so far, res].     *)
(***************************************************************************)
Done(w) == [w EXCEPT !.res = Ok]

Panic == [variant |-> "Panic", inner |-> "TryFromIntError"]

\* mutant: the paragraph wrapper is written inside a footnote definition too
start_paragraph_unconditional(w) ==
    write_all(w, <<L("<p")>> \o write_attributes(config, "p") \o <<L(">")>>)

start_paragraph(w) ==
    IF ~w.hs.currently_in_footnote
    THEN write_all(w, <<L("<p")>> \o write_attributes(config, "p") \o <<L(">")>>)
    ELSE Done(w)

end_paragraph(w) ==
    IF ~w.hs.currently_in_footnote
    THEN write_all(w, <<L("</p>")>>)
    ELSE Done(w)

\* HeadingLevel as u8
level_as_u8(level) == level

\* Display for HeadingLevel: "h1" .. "h6"
HeadingLevel_fmt(level) == <<"h", ToString(level)>>

\* format!("h{}", level_num), the key start_heading looks up in element_attributes
HeadingTag(level_num) == <<"h1", "h2", "h3", "h4", "h5", "h6">>[level_num]

\* mutant: the classes are written one after the other without separator
join_concat(strs, sep) == Flatten(strs)

\* all_classes.join(" ")
RECURSIVE join(_, _)
join(strs, sep) ==
    IF strs = <<>> THEN <<>>
    ELSE IF Len(strs) = 1 THEN Head(strs)
    ELSE Head(strs) \o sep \o join(Tail(strs), sep)

\* the write calls of the `for (key, value) in attrs` loop of start_heading
RECURSIVE HeadingAttrWrites(_)
HeadingAttrWrites(attrs) ==
    IF attrs = <<>> THEN <<>>
    ELSE LET key == Head(attrs)[1]
             value == Head(attrs)[2]
         IN <<L(" "), escape_html(key)>>
            \o (IF value.some THEN <<L("=\""), escape_html(value.val), L("\"")>>
                ELSE <<>>)
            \o HeadingAttrWrites(Tail(attrs))

\* mutant: the explicit id of the event is ignored
HeadingId_prefix_only(level_num, id) == config.id_prefix \o <<ToString(level_num)>>

\* id.map_or_else(|| format!("{}{}", id_prefix, level_num), |s| s.to_string())
HeadingId(level_num, id) ==
    IF id.some THEN id.val ELSE config.id_prefix \o <<ToString(level_num)>>

\* mutant: the id is computed and pushed although it is not written
start_heading_tracks_unwritten_id(w, level, id, classes, attrs) ==
    LET level_num == level_as_u8(level)
        level_classes == IF level_num \in DOMAIN config.level_classes
                         THEN <<config.level_classes[level_num]>> ELSE <<>>
        w1 == write_all(w, <<(<<"<h", ToString(level_num)>>)>>)
        heading_id == HeadingId(level_num, id)
        w2 == IF config.add_ids
              THEN and_then(w1, <<L(" id=\""), escape_html(heading_id), L("\"")>>)
              ELSE w1
        w2b == IF IsErr(w2) THEN w2
               ELSE [w2 EXCEPT !.hs.heading_stack = Append(@, heading_id)]
        all_classes == level_classes \o classes
        w3 == IF all_classes # <<>>
              THEN and_then(w2b, <<L(" class=\""), escape_html(join(all_classes, <<" ">>)),
                                   L("\"")>>)
              ELSE w2b
        w4 == and_then(w3, HeadingAttrWrites(attrs))
    IN and_then(w4, write_attributes(config, HeadingTag(level_num)) \o <<L(">")>>)

start_heading(w, level, id, classes, attrs) ==
    LET level_num == level_as_u8(level)
        add_ids == config.add_ids
        level_classes == IF level_num \in DOMAIN config.level_classes
                         THEN <<config.level_classes[level_num]>> ELSE <<>>
        w1 == write_all(w, <<(<<"<h", ToString(level_num)>>)>>)
        heading_id == HeadingId(level_num, id)
        w2 == IF add_ids
              THEN LET a == and_then(w1, <<L(" id=\""), escape_html(heading_id), L("\"")>>)
                   IN IF IsErr(a) THEN a
                      ELSE [a EXCEPT !.hs.heading_stack = Append(@, heading_id)]
              ELSE w1
        all_classes == level_classes \o classes
        w3 == IF all_classes # <<>>
              THEN and_then(w2, <<L(" class=\""), escape_html(join(all_classes, <<" ">>)),
                                  L("\"")>>)
              ELSE w2
        w4 == and_then(w3, HeadingAttrWrites(attrs))
    IN and_then(w4, write_attributes(config, HeadingTag(level_num)) \o <<L(">")>>)

end_heading(w, level) ==
    write_all(w, <<(<<"</">> \o HeadingLevel_fmt(level) \o <<">">>)>>)

start_blockquote(w) ==
    write_all(w, <<L("<blockquote")>> \o write_attributes(config, "blockquote")
                 \o <<L(">")>>)

end_blockquote(w) == write_all(w, <<L("</blockquote>")>>)

\* mutant: a configured default language wins over the fence info string
CodeBlockLang_default_first(kind, info) ==
    IF config.default_language.some THEN config.default_language
    ELSE IF kind = "Fenced" /\ info # <<>> THEN Some(info) ELSE None

\* the language token start_code_block resolves, as an Option
CodeBlockLang(kind, info) ==
    IF kind = "Fenced"
    THEN IF info = <<>> THEN config.default_language ELSE Some(info)
    ELSE config.default_language

start_code_block(w, kind, info) ==
    LET w1 == [w EXCEPT !.hs.currently_in_code_block = TRUE]
        lang == CodeBlockLang(kind, info)
    IN write_all(w1, <<L("<pre")>> \o write_attributes(config, "pre")
              \o <<L("><code")>>
              \o (IF lang.some
                  THEN <<(<<" class=\"language-">> \o lang.val \o <<"\"">>)>>
                  ELSE <<>>)
              \o write_attributes(config, "code") \o <<L(">")>>)

end_code_block(w) == write_all(w, <<L("</code></pre>")>>)

start_inline_code(w) ==
    write_all(w, <<L("<code")>> \o write_attributes(config, "code") \o <<L(">")>>)

end_inline_code(w) == write_all(w, <<L("</code>")>>)

text(w, s) ==
    IF config.escape_html
    THEN write_all(w, <<escape_html_body_text(s)>>)
    ELSE write_all(w, <<s>>)

start_list(w, first_number) ==
    IF first_number.some
    THEN IF first_number.hi # 0
         THEN \* n.try_into().unwrap() on a value above u32::MAX
              [w EXCEPT !.res = Panic]
         ELSE LET n == first_number.lo
                  w1 == [w EXCEPT !.hs.numbers = Append(@, n),
                                  !.hs.list_stack = Append(@, Ordered(n))]
              IN write_all(w1, <<L("<ol")>>
                     \o (IF n # 1 THEN <<(<<" start=\"", ToString(n), "\"">>)>> ELSE <<>>)
                     \o write_attributes(config, "ol") \o <<L(">")>>)
    ELSE LET w1 == [w EXCEPT !.hs.list_stack = Append(@, Unordered)]
         IN write_all(w1, <<L("<ul")>> \o write_attributes(config, "ul") \o <<L(">")>>)

end_list(w, ordered) == write_all(w, <<L(IF ordered THEN "</ol>" ELSE "</ul>")>>)

start_list_item(w) ==
    write_all(w, <<L("<li")>> \o write_attributes(config, "li") \o <<L(">")>>)

end_list_item(w) == write_all(w, <<L("</li>")>>)

start_table(w, alignments) ==
    LET w1 == [w EXCEPT !.hs.table_state = "InHeader",
                        !.hs.table_alignments = alignments]
    IN write_all(w1, <<L("<table")>> \o write_attributes(config, "table") \o <<L(">")>>)

end_table(w) == write_all(w, <<L("</tbody></table>")>>)

\* mutant: the header row goes on with the column index it finds
start_table_head_keeps_index(w) == write_all(w, <<L("<thead><tr>")>>)

start_table_head(w) ==
    write_all([w EXCEPT !.hs.table_cell_index = 0], <<L("<thead><tr>")>>)

end_table_head(w) == write_all(w, <<L("</tr></thead><tbody>")>>)

\* mutant: the first row does not move the phase to InBody
start_table_row_no_phase(w) ==
    write_all([w EXCEPT !.hs.table_cell_index = 0], <<L("<tr>")>>)

start_table_row(w) ==
    LET w1 == [w EXCEPT !.hs.table_cell_index = 0,
                        !.hs.table_state =
                            IF @ = "InHeader" THEN "InBody" ELSE @]
    IN write_all(w1, <<L("<tr>")>>)

end_table_row(w) == write_all(w, <<L("</tr>")>>)

AlignmentStyle(alignment) ==
    CASE alignment = "Left" -> <<L(" style=\"text-align: left\"")>>
      [] alignment = "Center" -> <<L(" style=\"text-align: center\"")>>
      [] alignment = "Right" -> <<L(" style=\"text-align: right\"")>>
      [] OTHER -> <<>>

CellTag(table_state) == IF table_state = "InHeader" THEN "th" ELSE "td"

\* mutant: the configured attributes are written before the alignment style
start_table_cell_attributes_first(w) ==
    LET tag == CellTag(w.hs.table_state)
        idx == w.hs.table_cell_index
        style == IF idx + 1 \in DOMAIN w.hs.table_alignments
                 THEN AlignmentStyle(w.hs.table_alignments[idx + 1])
                 ELSE <<>>
        w1 == write_all(w, <<L("<"), L(tag)>> \o write_attributes(config, tag)
                  \o style \o <<L(">")>>)
    IN IF IsErr(w1) THEN w1
       ELSE [w1 EXCEPT !.hs.table_cell_index = @ + 1]

start_table_cell(w) ==
    LET tag == CellTag(w.hs.table_state)
        idx == w.hs.table_cell_index
        style == IF idx + 1 \in DOMAIN w.hs.table_alignments
                 THEN AlignmentStyle(w.hs.table_alignments[idx + 1])
                 ELSE <<>>
        w1 == write_all(w, <<L("<"), L(tag)>> \o style
                  \o write_attributes(config, tag) \o <<L(">")>>)
    IN IF IsErr(w1) THEN w1
       ELSE [w1 EXCEPT !.hs.table_cell_index = @ + 1]

end_table_cell(w) == write_all(w, <<L("</td>")>>)

start_emphasis(w) ==
    write_all(w, <<L("<em")>> \o write_attributes(config, "em") \o <<L(">")>>)

end_emphasis(w) == write_all(w, <<L("</em>")>>)

start_strong(w) ==
    write_all(w, <<L("<strong")>> \o write_attributes(config, "strong") \o <<L(">")>>)

end_strong(w) == write_all(w, <<L("</strong>")>>)

start_strikethrough(w) ==
    write_all(w, <<L("<del")>> \o write_attributes(config, "del") \o <<L(">")>>)

end_strikethrough(w) == write_all(w, <<L("</del>")>>)

\* str::starts_with
starts_with(s, prefix) ==
    Len(s) >= Len(prefix) /\ SubSeq(s, 1, Len(prefix)) = prefix

is_external_link(url) ==
    \/ starts_with(url, <<"h", "t", "t", "p", ":", "/", "/">>)
    \/ starts_with(url, <<"h", "t", "t", "p", "s", ":", "/", "/">>)

\* mutant: target="_blank" is written only when rel="nofollow" is written too
start_link_blank_under_nofollow(w, dest, title) ==
    write_all(w, <<L("<a href=\""), escape_href(dest)>>
        \o (IF title # <<>>
            THEN <<L("\" title=\""), escape_html(title)>>
            ELSE <<>>)
        \o (IF is_external_link(dest) /\ config.nofollow_external
            THEN <<L("\" rel=\"nofollow")>>
                 \o (IF config.open_external_blank
                     THEN <<L("\" target=\"_blank")>> ELSE <<>>)
            ELSE <<>>)
        \o <<L("\"")>> \o write_attributes(config, "a") \o <<L(">")>>)

start_link(w, dest, title) ==
    write_all(w, <<L("<a href=\""), escape_href(dest)>>
        \o (IF title # <<>>
            THEN <<L("\" title=\""), escape_html(title)>>
            ELSE <<>>)
        \o (IF is_external_link(dest)
            THEN (IF config.nofollow_external
                  THEN <<L("\" rel=\"nofollow")>> ELSE <<>>)
                 \o (IF config.open_external_blank
                     THEN <<L("\" target=\"_blank")>> ELSE <<>>)
            ELSE <<>>)
        \o <<L("\"")>> \o write_attributes(config, "a") \o <<L(">")>>)

\* mutant: the end of a link pops the link stack
end_link_pops(w) ==
    write_all([w EXCEPT !.hs.link_stack =
                   IF @ = <<>> THEN @ ELSE SubSeq(@, 1, Len(@) - 1)],
              <<L("</a>")>>)

end_link(w) == write_all(w, <<L("</a>")>>)

start_definition_list(w) ==
    write_all(w, <<L("<dl")>> \o write_attributes(config, "dl") \o <<L(">")>>)

end_definition_list(w) == write_all(w, <<L("</dl>")>>)

start_definition_list_title(w) ==
    write_all(w, <<L("<dt")>> \o write_attributes(config, "dt") \o <<L(">")>>)

end_definition_list_title(w) == write_all(w, <<L("</dt>")>>)

start_definition_list_definition(w) ==
    write_all(w, <<L("<dd")>> \o write_attributes(config, "dd") \o <<L(">")>>)

end_definition_list_definition(w) == write_all(w, <<L("</dd>")>>)

footnote_reference(w, name) ==
    write_all(w, <<L("<sup class=\"footnote-reference\"><a href=\"#"), name,
                   L("\">"), name, L("</a></sup>")>>)

start_footnote_definition(w, name) ==
    LET w1 == write_all(w, <<L("<div class=\"footnote-definition\" id=\""), name,
                             L("\"><sup class=\"footnote-definition-label\">"),
                             name>>)
    IN IF IsErr(w1) THEN w1
       ELSE write_all([w1 EXCEPT !.hs.currently_in_footnote = TRUE], <<L("</sup>")>>)

end_footnote_definition(w) ==
    LET w1 == write_all(w, <<L("</div>")>>)
    IN IF IsErr(w1) THEN w1
       ELSE [w1 EXCEPT !.hs.currently_in_footnote = FALSE]

task_list_item(w, checked) ==
    write_all(w, <<L("<input type=\"checkbox\" disabled")>>
                 \o (IF checked THEN <<L(" checked")>> ELSE <<>>)
                 \o <<L(">")>>)

horizontal_rule(w) == write_all(w, <<L("<hr>")>>)

\* mutant: a soft break is a line-break element whatever break_on_newline is
soft_break_always_br(w) == write_all(w, <<L("<br>")>>)

soft_break(w) ==
    IF config.break_on_newline
    THEN write_all(w, <<L("<br>")>>)
    ELSE write_all(w, <<L("\n")>>)

hard_break(w) == write_all(w, <<L("<br>")>>)

\* the `for event in iter.by_ref()` loop of collect_alt_text, from iterator
\* position p with nesting counter nest and accumulator alt
RECURSIVE collect_alt_loop(_, _, _, _)
collect_alt_loop(evs, p, nest, alt) ==
    IF p > Len(evs) THEN [alt |-> alt, it |-> p]
    ELSE LET event == evs[p]
         IN CASE event.t = "Start" -> collect_alt_loop(evs, p + 1, nest + 1, alt)
              [] event.t = "End" ->
                   IF nest = 0 THEN [alt |-> alt, it |-> p + 1]
                   ELSE collect_alt_loop(evs, p + 1, nest - 1, alt)
              [] event.t \in {"Text", "Code"} ->
                   collect_alt_loop(evs, p + 1, nest, alt \o event.text)
              [] event.t \in {"SoftBreak", "HardBreak"} ->
                   collect_alt_loop(evs, p + 1, nest, alt \o <<" ">>)
              [] OTHER -> collect_alt_loop(evs, p + 1, nest, alt)

\* mutant: a stream that ends inside the image leaves no alt text
collect_alt_text_drops_partial(evs, p) ==
    LET c == collect_alt_loop(evs, p, 0, <<>>)
    IN IF c.it > Len(evs) /\ (c.it - 1 < p \/ evs[c.it - 1].t # "End")
       THEN [c EXCEPT !.alt = <<>>] ELSE c

\* the values `nest` takes in the loop of collect_alt_text, from iterator
\* position p on, one per assignment
RECURSIVE collect_alt_nests(_, _, _)
collect_alt_nests(evs, p, nest) ==
    IF p > Len(evs) THEN <<>>
    ELSE LET event == evs[p]
         IN CASE event.t = "Start" ->
                   <<nest + 1>> \o collect_alt_nests(evs, p + 1, nest + 1)
              [] event.t = "End" ->
                   IF nest = 0 THEN <<>>
                   ELSE <<nest - 1>> \o collect_alt_nests(evs, p + 1, nest - 1)
              [] OTHER -> collect_alt_nests(evs, p + 1, nest)

\* mutant: the loop stops at the first End, whatever the nesting counter is
collect_alt_text_first_end(evs, p) ==
    LET RECURSIVE loop(_, _)
        loop(q, alt) ==
            IF q > Len(evs) THEN [alt |-> alt, it |-> q]
            ELSE LET event == evs[q]
                 IN CASE event.t = "End" -> [alt |-> alt, it |-> q + 1]
                      [] event.t \in {"Text", "Code"} -> loop(q + 1, alt \o event.text)
                      [] event.t \in {"SoftBreak", "HardBreak"} -> loop(q + 1, alt \o <<" ">>)
                      [] OTHER -> loop(q + 1, alt)
    IN loop(p, <<>>)

\* mutant: the End that closes the image is peeked at but left in the iterator
collect_alt_text_keeps_end(evs, p) ==
    LET c == collect_alt_loop(evs, p, 0, <<>>)
    IN IF c.it > p /\ c.it - 1 <= Len(evs) /\ evs[c.it - 1].t = "End"
       THEN [c EXCEPT !.it = @ - 1] ELSE c

\* result: the alt string and the iterator position after the loop
collect_alt_text(evs, p) == collect_alt_loop(evs, p, 0, <<>>)

\* result: the writer and the iterator position the operation leaves behind
start_image(w, dest, title, evs, p) ==
    LET w1 == write_all(w, <<L("<img src=\""), escape_href(dest), L("\" alt=\"")>>)
    IN IF IsErr(w1) THEN [w |-> w1, it |-> p]
       ELSE LET c == collect_alt_text(evs, p)
                w2 == write_all(w1, <<escape_html(c.alt), L("\"")>>
                        \o (IF title # <<>>
                            THEN <<L(" title=\""), escape_html(title), L("\"")>>
                            ELSE <<>>)
                        \o write_attributes(config, "img")
                        \o (IF config.xhtml_style THEN <<L(" />")>> ELSE <<L(">")>>))
            IN [w |-> w2, it |-> c.it]

end_image(w) == Done(w)

(***************************************************************************)
(* SyntectWriter (html/syntect.rs): the writer of the highlighting entry   *)
(* point; it overrides start_code_block, text and end_code_block           *)
(***************************************************************************)
\* write calls whose results are dropped: each one is made
RECURSIVE write_each(_, _)
write_each(w, frags) ==
    IF frags = <<>> THEN w
    ELSE write_each(write_str(w, Head(frags)), Tail(frags))

\* find_syntax_by_token / find_syntax_by_extension on the default syntax set,
\* else find_syntax_plain_text
find_syntax(lang) ==
    IF lang.some /\ lang.val = <<"r", "s">> THEN "source rust"
    ELSE IF lang.some /\ lang.val = <<"p", "y">> THEN "source python"
    ELSE "text plain"

\* highlight_code: ClassedHTMLGenerator wraps the code, escaped, in a span of
\* the syntax found for the language
highlight_code(code, lang) ==
    <<"<span class=\"", find_syntax(lang), "\">">> \o escape_html(code) \o <<"</span>">>

\* the language SyntectWriter::start_code_block keeps in current_lang
SyntectWriter_lang(kind, info) ==
    IF kind = "Fenced" /\ info # <<>> THEN Some(info) ELSE None

SyntectWriter_start_code_block(w, kind, info) ==
    LET lang == SyntectWriter_lang(kind, info)
        w1 == write_each([w EXCEPT !.lang = lang],
                  <<L("<pre")>> \o write_attributes(config, "pre") \o <<L("><code")>>
                  \o (IF lang.some
                      THEN <<(<<" class=\"language-">> \o lang.val \o <<"\"">>)>>
                      ELSE <<>>)
                  \o write_attributes(config, "code") \o <<L(">")>>)
    IN [w1 EXCEPT !.hs.currently_in_code_block = TRUE, !.res = Ok]

SyntectWriter_text(w, s) ==
    IF w.hs.currently_in_code_block
    THEN [write_each(w, <<highlight_code(s, w.lang)>>) EXCEPT !.res = Ok]
    ELSE [text(w, s) EXCEPT !.res = Ok]

SyntectWriter_end_code_block(w) ==
    LET w1 == write_each(w, <<L("</code></pre>")>>)
    IN [w1 EXCEPT !.lang = None, !.hs.currently_in_code_block = FALSE, !.res = Ok]

\* the entry point that renders with a SyntectWriter
UsesSyntectWriter == entry = "push_html_with_highlighting"

\* self.writer.start_code_block, .text and .end_code_block: the method of
\* the writer the renderer was built with
writer_start_code_block(w, kind, info) ==
    IF UsesSyntectWriter THEN SyntectWriter_start_code_block(w, kind, info)
    ELSE start_code_block(w, kind, info)

writer_text(w, s) ==
    IF UsesSyntectWriter THEN SyntectWriter_text(w, s) ELSE text(w, s)

writer_end_code_block(w) ==
    IF UsesSyntectWriter THEN SyntectWriter_end_code_block(w) ELSE end_code_block(w)

(***************************************************************************)
(* Renderer (HtmlRenderer, html/mod.rs)                                    *)
(***************************************************************************)
\* result: the writer and the iterator position after the operation
handle_start(w, tag, evs, p) ==
    CASE tag.tag = "Paragraph" -> [w |-> start_paragraph(w), it |-> p]
      [] tag.tag = "Heading" ->
           [w |-> start_heading(w, tag.level, tag.id, tag.classes, tag.attrs), it |-> p]
      [] tag.tag = "BlockQuote" -> [w |-> start_blockquote(w), it |-> p]
      [] tag.tag = "CodeBlock" ->
           [w |-> writer_start_code_block(w, tag.kind, tag.info), it |-> p]
      [] tag.tag = "List" -> [w |-> start_list(w, tag.num), it |-> p]
      [] tag.tag = "Item" -> [w |-> start_list_item(w), it |-> p]
      [] tag.tag = "FootnoteDefinition" ->
           [w |-> start_footnote_definition(w, tag.text), it |-> p]
      [] tag.tag = "Table" -> [w |-> start_table(w, tag.aligns), it |-> p]
      [] tag.tag = "TableHead" -> [w |-> start_table_head(w), it |-> p]
      [] tag.tag = "TableRow" -> [w |-> start_table_row(w), it |-> p]
      [] tag.tag = "TableCell" -> [w |-> start_table_cell(w), it |-> p]
      [] tag.tag = "Emphasis" -> [w |-> start_emphasis(w), it |-> p]
      [] tag.tag = "Strong" -> [w |-> start_strong(w), it |-> p]
      [] tag.tag = "Strikethrough" -> [w |-> start_strikethrough(w), it |-> p]
      [] tag.tag = "Link" -> [w |-> start_link(w, tag.dest, tag.title), it |-> p]
      [] tag.tag = "Image" -> start_image(w, tag.dest, tag.title, evs, p)

handle_end(w, tag) ==
    CASE tag.tag = "Paragraph" -> end_paragraph(w)
      [] tag.tag = "Heading" -> end_heading(w, tag.level)
      [] tag.tag = "BlockQuote" -> end_blockquote(w)
      [] tag.tag = "CodeBlock" -> writer_end_code_block(w)
      [] tag.tag = "List" -> end_list(w, tag.num.some)
      [] tag.tag = "Item" -> end_list_item(w)
      [] tag.tag = "FootnoteDefinition" -> end_footnote_definition(w)
      [] tag.tag = "Table" -> end_table(w)
      [] tag.tag = "TableHead" -> end_table_head(w)
      [] tag.tag = "TableRow" -> end_table_row(w)
      [] tag.tag = "TableCell" -> end_table_cell(w)
      [] tag.tag = "Emphasis" -> end_emphasis(w)
      [] tag.tag = "Strong" -> end_strong(w)
      [] tag.tag = "Strikethrough" -> end_strikethrough(w)
      [] tag.tag = "Link" -> end_link(w)
      [] tag.tag = "Image" -> end_image(w)

\* three Writer calls whose results are dropped; res is the last call's result
handle_inline_code(w, s) ==
    LET w1 == start_inline_code(w)
        w2 == writer_text(w1, s)
    IN end_inline_code(w2)

\* one iteration of run's loop as a function: the writer and the iterator
\* position after the event at position p has been dispatched
run_step(w, evs, p) ==
    LET event == evs[p]
    IN CASE event.t = "Start" -> handle_start(w, event, evs, p + 1)
         [] event.t = "End" -> [w |-> handle_end(w, event), it |-> p + 1]
         [] event.t = "Text" -> [w |-> writer_text(w, event.text), it |-> p + 1]
         [] event.t = "Code" -> [w |-> handle_inline_code(w, event.text), it |-> p + 1]
         [] event.t = "Html" -> [w |-> write_str(w, event.text), it |-> p + 1]
         [] event.t = "SoftBreak" -> [w |-> soft_break(w), it |-> p + 1]
         [] event.t = "HardBreak" -> [w |-> hard_break(w), it |-> p + 1]
         [] event.t = "Rule" -> [w |-> horizontal_rule(w), it |-> p + 1]
         [] event.t = "FootnoteReference" ->
              [w |-> footnote_reference(w, event.text), it |-> p + 1]
         [] event.t = "TaskListMarker" ->
              [w |-> task_list_item(w, event.checked), it |-> p + 1]

\* run from position p to the end of the stream (or to a panic)
RECURSIVE run(_, _, _)
run(w, evs, p) ==
    IF p > Len(evs) \/ w.res = Panic THEN w
    ELSE LET r == run_step(w, evs, p) IN run(r.w, evs, r.it)

\* the writer as run sees it before dispatching an event
W == [hs |-> state, out |-> out, n |-> attempts, res |-> Ok, lang |-> current_lang]

Cur == events[pos]

\* `while let Some(event) = iter.next()` yields an event of kind t
Yields(t) == pc = "running" /\ pos <= Len(events) /\ Cur.t = t

\* the effect of one arm of run's match: the Writer operation has run, its
\* result is dropped and the loop goes on with the iterator at position it
Arm(w, it) ==
    /\ state' = w.hs
    /\ current_lang' = w.lang
    /\ out' = w.out
    /\ attempts' = w.n
    /\ pos' = it
    /\ pc' = IF w.res = Panic THEN "panicked" ELSE pc
    /\ last' = [t |-> Cur.t, tag |-> Cur.tag, idx |-> pos, res |-> w.res,
                from |-> Len(out), n0 |-> attempts, hs0 |-> state]
    /\ dispatched' = Append(dispatched, pos)
    /\ UNCHANGED <<events, config, failAt, sinkErr, entry, ret, stderr, queue,
                   earlier, rendered, input, expanded, arg, result>>

RunStart ==
    /\ Yields("Start")
    /\ LET r == handle_start(W, Cur, events, pos + 1) IN Arm(r.w, r.it)

RunEnd == Yields("End") /\ Arm(handle_end(W, Cur), pos + 1)

RunText == Yields("Text") /\ Arm(writer_text(W, Cur.text), pos + 1)

RunCode == Yields("Code") /\ Arm(handle_inline_code(W, Cur.text), pos + 1)

RunHtml == Yields("Html") /\ Arm(write_str(W, Cur.text), pos + 1)

RunSoftBreak == Yields("SoftBreak") /\ Arm(soft_break(W), pos + 1)

RunHardBreak == Yields("HardBreak") /\ Arm(hard_break(W), pos + 1)

RunRule == Yields("Rule") /\ Arm(horizontal_rule(W), pos + 1)

RunFootnoteReference ==
    Yields("FootnoteReference") /\ Arm(footnote_reference(W, Cur.text), pos + 1)

RunTaskListMarker ==
    Yields("TaskListMarker") /\ Arm(task_list_item(W, Cur.checked), pos + 1)

(***************************************************************************)
(* Entry points: what each returns once run has exhausted the iterator     *)
(***************************************************************************)
\* names of the themes of THEME_SET (ThemeSet::load_defaults)
ThemeSet == {"base16-ocean.dark", "base16-mocha.dark", "InspiredGitHub"}

\* SyntectWriter::get_theme_css
get_theme_css(style) ==
    IF style.theme \in ThemeSet
    THEN [variant |-> "Ok", css |-> <<"css:", style.theme>>]
    ELSE [variant |-> "Err", css |-> <<>>]

Exhausted == pc = "running" /\ pos > Len(events)

Return(value, printed) ==
    /\ pc' = "done"
    /\ ret' = value
    /\ stderr' = stderr \o printed
    /\ UNCHANGED <<events, pos, config, state, out, attempts, failAt, sinkErr,
                   entry, last, dispatched, queue, earlier, rendered, input, expanded,
                   current_lang, arg, result>>

push_html ==
    /\ Exhausted /\ entry = "push_html"
    /\ Return([kind |-> "String", value |-> out], <<>>)

write_html_fmt ==
    /\ Exhausted /\ entry = "write_html_fmt"
    /\ Return([kind |-> "Unit", value |-> <<>>], <<>>)

write_html_io ==
    /\ Exhausted /\ entry = "write_html_io"
    /\ Return([kind |-> "Unit", value |-> <<>>], <<>>)

push_html_with_highlighting ==
    /\ Exhausted /\ entry = "push_html_with_highlighting"
    /\ LET style == config.syntect
           css == get_theme_css(style)
       IN IF style.some /\ style.inject_css
          THEN IF css.variant = "Ok"
               THEN Return([kind |-> "String",
                            value |-> <<"<style>">> \o css.css \o <<"</style>\n">> \o out],
                           <<>>)
               ELSE Return([kind |-> "String", value |-> out],
                           <<"Failed to generate syntax highlighting CSS">>)
          ELSE Return([kind |-> "String", value |-> out], <<>>)

NoLast ==
    [t |-> "-", tag |-> "-", idx |-> 0, res |-> Ok, from |-> 0, n0 |-> 0,
     hs0 |-> HtmlState_new]

NoRet == [kind |-> "-", value |-> <<>>]

\* mutant: the writer of a later render takes over the state of the earlier one
DefaultHtmlWriter_new_reused(previous) == previous

\* DefaultHtmlWriter::new: the state of the writer an entry point builds;
\* previous is the state of the writer of the render before, already dropped
DefaultHtmlWriter_new(previous) == HtmlState_new

\* mutant: the copy of a HashMap iterates in the reverse order of the original
HashMap_clone_rehashed(m) == [k \in DOMAIN m |-> Reverse(m[k])]

\* HashMap::clone of element_attributes: the copy has the hasher and the table
\* layout of the original, so its maps iterate in the order of the original
HashMap_clone(m) == [k \in DOMAIN m |-> m[k]]

\* config.clone(), the configuration DefaultHtmlWriter::new hands to its base
HtmlConfig_clone(cfg) ==
    [cfg EXCEPT !.element_attributes = HashMap_clone(cfg.element_attributes)]

\* the caller invokes the entry point again, with the same configuration: a
\* new sink (String::new()), a new writer and a new renderer
NewRender ==
    /\ pc = "done"
    /\ queue # <<>>
    /\ events' = Head(queue)
    /\ queue' = Tail(queue)
    /\ earlier' = Append(earlier, state)
    /\ rendered' = Append(rendered, [events |-> events, out |-> out])
    /\ config' = HtmlConfig_clone(config)
    /\ state' = DefaultHtmlWriter_new(state)
    /\ current_lang' = None
    /\ pos' = 1
    /\ out' = <<>>
    /\ attempts' = 0
    /\ pc' = "running"
    /\ last' = NoLast
    /\ dispatched' = <<>>
    /\ ret' = NoRet
    /\ UNCHANGED <<failAt, sinkErr, entry, stderr, input, expanded, arg, result>>

(***************************************************************************)
(* Event sequences a parser hands to the renderer (well-nested documents)  *)
(***************************************************************************)
TextA == <<"a">>
TextB == <<"b", "<", "&">>
TextC == <<"c">>
TextH == <<"<", "i", ">">>
\* quotes, and text that is escaped already
TextQ == <<"\"", "q", "'", "&", "l", "t", ";">>
FnName == <<"1">>
Dest == <<"u", " ", "&">>
Title == <<"t", "\"">>

Para(inl) == <<Start("Paragraph")>> \o inl \o <<End("Paragraph")>>

Cell == <<Start("TableCell"), Text(TextA), End("TableCell")>>

RowOf(c) == <<Start("TableRow")>> \o Repeat(Cell, c) \o <<End("TableRow")>>

TableBlock(aligns, c, r) ==
    <<StartTable(aligns), Start("TableHead")>> \o Repeat(Cell, c)
    \o <<End("TableHead")>> \o Repeat(RowOf(c), r) \o <<End("Table")>>

Alignments == <<"Left", "Center", "Right", "None">>

AlignPattern(k, o) == [i \in 1..k |-> Alignments[((i - 1 + o) % 4) + 1]]

AlignChoices == {AlignPattern(k, o) : k \in 0..MaxCols, o \in {0, 3}}

Tables == {TableBlock(a, c, r) : a \in AlignChoices, c \in 1..MaxCols, r \in 0..MaxRows}

StartNumbers == {NoNum, Num(0, 1), Num(0, 3), Num(1, 0)}

ListBlock(num, inner) ==
    <<StartList(num), Start("Item"), Text(TextA)>> \o inner
    \o <<End("Item"), EndList(num)>>

RECURSIVE Lists(_)
Lists(d) ==
    IF d = 0 THEN {}
    ELSE {ListBlock(num, <<>>) : num \in StartNumbers}
         \cup {ListBlock(num, inner) : num \in StartNumbers, inner \in Lists(d - 1)}

TaskList ==
    <<StartList(NoNum), Start("Item"), TaskListMarker(TRUE), Text(TextA), End("Item"),
      Start("Item"), TaskListMarker(FALSE), Text(TextC), End("Item"), EndList(NoNum)>>

FootnoteBlock(k) ==
    <<StartFootnoteDefinition(FnName)>> \o Repeat(Para(<<Text(TextA)>>), k)
    \o <<End("FootnoteDefinition")>>

AltLeaves ==
    {<<>>, <<Text(TextA)>>, <<Code(TextC)>>, <<SoftBreak>>, <<HardBreak>>,
     <<Html(TextH)>>, <<Rule>>, <<FootnoteReference(FnName)>>,
     <<TaskListMarker(TRUE)>>,
     <<StartImage(Dest, <<>>), Text(TextC), End("Image")>>}

\* what lies between an image Start and its End, nested up to depth d
RECURSIVE AltSeqs(_)
AltSeqs(d) ==
    LET items == IF d = 0 THEN AltLeaves
                 ELSE AltLeaves \cup
                      {<<Start(IF d % 2 = 1 THEN "Emphasis" ELSE "Strong")>> \o x
                       \o <<End(IF d % 2 = 1 THEN "Emphasis" ELSE "Strong")>>
                       : x \in AltSeqs(d - 1)}
    IN {x \o y : x \in items, y \in {<<>>, <<Text(TextB)>>}}

ImagePara(title, interior, suffix) ==
    Para(<<StartImage(Dest, title)>> \o interior \o <<End("Image")>> \o suffix)

Images ==
    {ImagePara(<<>>, x, <<Text(TextC)>>) : x \in AltSeqs(MaxAltNest)}

\* HeadingLevel::H1 .. H6
Levels == 1..6

HeadingIds == {None, Some(<<"i", "&">>)}

HeadingClasses == {<<>>, <<(<<"k">>)>>, <<(<<"k">>), (<<"m", "\"">>)>>}

\* Vec<(CowStr, Option<CowStr>)>
HeadingAttrs == {<<>>, <<(<<(<<"d">>), Some(<<"v", "<">>)>>)>>, <<(<<(<<"d">>), None>>)>>}

HeadingBlock(level, id, classes, attrs, inl) ==
    <<StartHeading(level, id, classes, attrs)>> \o inl \o <<EndHeading(level)>>

Headings ==
    {HeadingBlock(l, i, c, a, <<Text(TextA)>>) :
        l \in Levels, i \in HeadingIds, c \in HeadingClasses, a \in HeadingAttrs}

Info == <<"p", "y">>

CodeBlockOf(kind, info) ==
    <<StartCodeBlock(kind, info), Text(TextB), End("CodeBlock")>>

CodeBlocks ==
    {CodeBlockOf("Fenced", Info), CodeBlockOf("Fenced", <<>>), CodeBlockOf("Indented", <<>>)}

Http == <<"h", "t", "t", "p", ":", "/", "/">>
Https == <<"h", "t", "t", "p", "s", ":", "/", "/">>

\* external, protocol-relative, mailto, relative and near-miss destinations
LinkDests ==
    {Http \o <<"x">>, Https \o <<"x", "?", "q", "=", "1", "&", "r">>, Http,
     <<"/", "/", "x">>, <<"m", "a", "i", "l", "t", "o", ":", "x">>,
     <<"/", "x", " ", "'", "y">>, <<"h", "t", "t", "p", ":", "/", "x">>,
     <<"H", "T", "T", "P", ":", "/", "/", "x">>, <<"x">> \o Http, <<>>}

LinkPara(dest, title) ==
    Para(<<StartLink(dest, title), Text(TextA), End("Link")>>)

LinkDocs == {LinkPara(d, t) : d \in LinkDests, t \in {<<>>, Title}}

CoreBlocks ==
    {Para(<<Text(TextA)>>),
     HeadingBlock(2, None, <<>>, <<>>,
                  <<StartLink(Https \o <<"x">>, <<>>), Text(TextA), End("Link"),
                    Start("Strikethrough"), Text(TextC), End("Strikethrough")>>),
     <<Start("BlockQuote")>> \o Para(<<Text(TextA)>>) \o <<End("BlockQuote")>>,
     Para(<<Text(TextA), SoftBreak, Text(TextB)>>),
     Para(<<Code(TextC), HardBreak, FootnoteReference(FnName)>>),
     Para(<<Start("Emphasis"), Text(TextA), Start("Strong"), Text(TextC),
            End("Strong"), End("Emphasis")>>),
     <<Rule>>,
     <<Html(TextH)>>,
     TaskList,
     ListBlock(Num(0, 3), <<>>),
     TableBlock(<<"Left">>, 1, 1),
     FootnoteBlock(1),
     ImagePara(Title, <<Text(TextA)>>, <<>>)}

RichBlocks ==
    Tables \cup Lists(MaxListDepth) \cup Images \cup {FootnoteBlock(2)}
    \cup Headings \cup CodeBlocks \cup {Para(<<Text(TextQ), Html(TextQ)>>)}

\* a code block of each kind, alone and between paragraphs
CodeDocs ==
    {a \o c \o b : a \in {<<>>, Para(<<Text(TextB)>>)}, c \in CodeBlocks,
                   b \in {<<>>, Para(<<Text(TextQ)>>)}}

\* the concatenations of exactly k core blocks
RECURSIVE CoreSeqs(_)
CoreSeqs(k) ==
    IF k = 0 THEN {<<>>}
    ELSE {b \o rest : b \in CoreBlocks, rest \in CoreSeqs(k - 1)}

\* the documents made of core blocks only
CoreDocs == UNION {CoreSeqs(k) : k \in 1..MaxBlocks}

\* what a caller renders after a first document
LaterDocs == {Para(<<Text(TextA)>>), ListBlock(NoNum, <<>>), FootnoteBlock(1)}

\* the sequences of at most k later documents
RECURSIVE QueuesUpTo(_)
QueuesUpTo(k) ==
    IF k = 0 THEN {<<>>}
    ELSE QueuesUpTo(k - 1)
         \cup {<<d>> \o q : d \in LaterDocs, q \in {x \in QueuesUpTo(k - 1) : Len(x) = k - 1}}

Queues == QueuesUpTo(MaxRenders - 1)

\* blocks that leave render state behind for the block that follows
Leading ==
    {<<>>, TableBlock(<<"Left">>, 1, 1), FootnoteBlock(1), ListBlock(Num(0, 3), <<>>),
     HeadingBlock(1, None, <<>>, <<>>, <<Text(TextC)>>), CodeBlockOf("Fenced", Info)}

Trailing == {<<>>, Para(<<Text(TextA)>>)}

\* the empty document, the core documents, and every rich block on its own,
\* after a leading block and before a trailing paragraph
Docs ==
    {<<>>} \cup CoreDocs
    \cup {a \o r \o b : a \in Leading, r \in RichBlocks, b \in Trailing}

(***************************************************************************)
(* Configurations                                                          *)
(***************************************************************************)
\* the tag names the writer emits
EmittedTags ==
    {"p", "h1", "h2", "h3", "h4", "h5", "h6", "pre", "code", "ol", "ul", "li",
     "table", "thead", "tbody", "tr", "th", "td", "a", "img", "em", "strong",
     "del", "blockquote", "hr", "br", "input", "sup", "div"}

CustomConfig ==
    [HtmlConfig_default EXCEPT
        !.escape_html = TRUE,
        !.break_on_newline = FALSE,
        !.xhtml_style = TRUE,
        !.id_prefix = <<"s", "-">>,
        !.level_classes = [l \in {1, 3} |-> <<"t">>],
        !.nofollow_external = FALSE,
        !.default_language = Some(<<"r", "s">>),
        !.element_attributes =
            [e \in EmittedTags |-> <<(<<"class", "x">>)>>]]

LinkConfig(nofollow, blank) ==
    [HtmlConfig_default EXCEPT
        !.nofollow_external = nofollow,
        !.open_external_blank = blank]

\* two attribute pairs for one element; the sequence is the order in which
\* this instance of the map iterates (it differs from instance to instance)
AttrOrders ==
    {<<(<<"class", "x">>), (<<"id", "y">>)>>, <<(<<"id", "y">>), (<<"class", "x">>)>>}

AttrConfig(pairs) ==
    [HtmlConfig_default EXCEPT !.element_attributes = [e \in {"p", "li"} |-> pairs]]

AttrSetups == {<<"push_html", AttrConfig(o)>> : o \in AttrOrders}

LinkSetups == {<<"push_html", LinkConfig(n, b)>> : n \in BOOLEAN, b \in BOOLEAN}

Syntect(theme, inject) ==
    [HtmlConfig_default EXCEPT
        !.syntect = [some |-> TRUE, theme |-> theme, inject_css |-> inject]]

MainSetups ==
    {<<"push_html", HtmlConfig_default>>,
     <<"push_html", CustomConfig>>}

\* the configuration with heading ids turned off
NoIds(c) == [c EXCEPT !.add_ids = FALSE]

NoIdSetups == {<<"push_html", NoIds(c)>> : c \in {HtmlConfig_default, CustomConfig}}

\* entry point and configuration of a render
Setups ==
    MainSetups \cup
    {
     <<"write_html_fmt", HtmlConfig_default>>,
     <<"write_html_io", HtmlConfig_default>>,
     <<"push_html_with_highlighting", HtmlConfig_default>>,
     <<"push_html_with_highlighting", Syntect("base16-ocean.dark", TRUE)>>,
     <<"push_html_with_highlighting", Syntect("no-such-theme", TRUE)>>,
     <<"push_html_with_highlighting", Syntect("no-such-theme", FALSE)>>}

\* highlighting renders: with and without syntect style, default language,
\* text escaping and configured attributes
HighlightSetups ==
    {<<"push_html_with_highlighting", c>> :
        c \in {HtmlConfig_default,
               Syntect("base16-ocean.dark", TRUE),
               [Syntect("base16-ocean.dark", FALSE) EXCEPT
                    !.default_language = Some(<<"p", "y">>)],
               CustomConfig}}

\* the error values a sink of the entry point's kind can return
SinkErrors(e) ==
    IF e = "write_html_io"
    THEN {"io::Error(BrokenPipe)", "io::Error(WriteZero)"}
    ELSE {"fmt::Error"}

\* entry points whose sink can reject a write (a String never does)
Fallible == {"write_html_fmt", "write_html_io"}

(***************************************************************************)
(* Loading the level-class table (deserialize_heading_map, html/config.rs) *)
(***************************************************************************)
NoArg == [type |-> "-"]

NoResult == [variant |-> "-"]

DecimalDigits == <<"0", "1", "2", "3", "4", "5", "6", "7", "8", "9">>

IsDigit(c) == \E i \in 1..10 : DecimalDigits[i] = c

DigitValue(c) == (CHOOSE i \in 1..10 : DecimalDigits[i] = c) - 1

\* the number a string of decimal digits denotes
RECURSIVE DecimalValue(_)
DecimalValue(ds) ==
    IF ds = <<>> THEN 0
    ELSE DecimalValue(SubSeq(ds, 1, Len(ds) - 1)) * 10 + DigitValue(ds[Len(ds)])

\* str::parse::<u8>: an optional plus sign, then one or more decimal digits,
\* leading zeros allowed, value at most 255
parse_u8(k) ==
    LET digits == IF k # <<>> /\ k[1] = "+" THEN Tail(k) ELSE k
    IN IF digits # <<>> /\ (\A i \in 1..Len(digits) : IsDigit(digits[i]))
          /\ DecimalValue(digits) <= 255
       THEN [ok |-> TRUE, val |-> DecimalValue(digits)]
       ELSE [ok |-> FALSE, val |-> 0]

DeError(message) == [variant |-> "Err", message |-> message]

\* the `for (k, v) in map` loop from entry i on, with the table built so far;
\* entries is the map in its iteration order
RECURSIVE heading_map_loop(_, _, _)
heading_map_loop(entries, i, table) ==
    IF i > Len(entries) THEN [variant |-> "Ok", table |-> table]
    ELSE LET k == entries[i][1]
             v == entries[i][2]
             level == parse_u8(k)
         IN IF ~level.ok THEN DeError("invalid digit found in string")
            ELSE IF ~(level.val \in 1..6)
            THEN DeError("heading level must be between 1 and 6")
            ELSE IF v.type # "String" THEN DeError("value must be a string")
            ELSE heading_map_loop(entries, i + 1,
                    [l \in DOMAIN table \cup {level.val} |->
                        IF l = level.val THEN v.s ELSE table[l]])

deserialize_heading_map(value) ==
    IF value.type = "Object"
    THEN heading_map_loop(value.entries, 1, [l \in {} |-> <<>>])
    ELSE DeError("expected a map")

\* serde_json::Value
JsonString(s) == [type |-> "String", s |-> s]

JsonObject(entries) == [type |-> "Object", entries |-> entries]

JsonScalars == {JsonString(<<"t">>), JsonString(<<"u">>), [type |-> "Number"], [type |-> "Null"]}

\* keys of a level-class table as a configuration file can give them
LevelKeys ==
    {<<"1">>, <<"2">>, <<"6">>, <<"0">>, <<"7">>, <<"0", "1">>, <<"+", "1">>,
     <<"2", "5", "6">>, <<"h", "1">>, <<>>, <<"-", "1">>, <<"1", " ">>}

\* the objects with at most n entries, keys distinct, in iteration order
RECURSIVE ObjectEntries(_)
ObjectEntries(n) ==
    IF n = 0 THEN {<<>>}
    ELSE ObjectEntries(n - 1)
         \cup {Append(es, <<k, v>>) :
                 es \in {x \in ObjectEntries(n - 1) : Len(x) = n - 1},
                 k \in LevelKeys, v \in JsonScalars}

JsonValues ==
    {JsonObject(es) : es \in {x \in ObjectEntries(MaxEntries) :
                                \A i, j \in 1..Len(x) : i # j => x[i][1] # x[j][1]}}
    \cup JsonScalars \cup {[type |-> "Array"]}

(***************************************************************************)
(* Identifiers from text (sanitize_id, utils.rs)                           *)
(***************************************************************************)
AsciiUpper ==
    <<"A", "B", "C", "D", "E", "F", "G", "H", "I", "J", "K", "L", "M",
      "N", "O", "P", "Q", "R", "S", "T", "U", "V", "W", "X", "Y", "Z">>

AsciiLower ==
    <<"a", "b", "c", "d", "e", "f", "g", "h", "i", "j", "k", "l", "m",
      "n", "o", "p", "q", "r", "s", "t", "u", "v", "w", "x", "y", "z">>

\* letters outside ASCII, one with and one without a lower-case form
OtherLetters == {"U+00C9", "U+6C49"}

\* char::is_alphanumeric
is_alphanumeric(c) ==
    \/ \E i \in 1..26 : AsciiUpper[i] = c \/ AsciiLower[i] = c
    \/ IsDigit(c)
    \/ c \in OtherLetters

\* char::to_ascii_lowercase: A..Z to a..z, every other character as it is
to_ascii_lowercase(c) ==
    IF \E i \in 1..26 : AsciiUpper[i] = c
    THEN AsciiLower[CHOOSE i \in 1..26 : AsciiUpper[i] = c]
    ELSE c

\* str::split(sep): the pieces between the separators, empty ones included
RECURSIVE split(_, _)
split(str, sep) ==
    IF \A i \in 1..Len(str) : str[i] # sep THEN <<str>>
    ELSE LET at == CHOOSE i \in 1..Len(str) :
                       str[i] = sep /\ \A j \in 1..(i - 1) : str[j] # sep
         IN <<SubSeq(str, 1, at - 1)>> \o split(SubSeq(str, at + 1, Len(str)), sep)

\* mutant: empty pieces are kept
filter_keep_all(pieces) == pieces

\* .filter(|s| !s.is_empty())
filter_nonempty(pieces) == SelectSeq(pieces, LAMBDA p : p # <<>>)

sanitize_id(txt) ==
    LET mapped == [i \in 1..Len(txt) |->
                      IF is_alphanumeric(txt[i]) THEN to_ascii_lowercase(txt[i])
                      ELSE "-"]
    IN join(filter_nonempty(split(mapped, "-")), <<"-">>)

\* the characters of the texts an identifier is made from
IdChars == {"A", "b", "7", "U+00C9", " ", "-"}

\* the strings over chars of length at most n
RECURSIVE Strs(_, _)
Strs(chars, n) ==
    IF n = 0 THEN {<<>>}
    ELSE Strs(chars, n - 1)
         \cup {Append(x, c) : x \in {y \in Strs(chars, n - 1) : Len(y) = n - 1},
                               c \in chars}

(***************************************************************************)
(* The html_writer attribute macro (pulldown-html-ext-derive)              *)
(***************************************************************************)
\* A token string is a sequence of atoms: punctuation and identifiers, a
\* compound identifier being the atoms of its parts.
\* str::contains for a needle of one atom
contains(tokens, needle) == \E i \in 1..Len(tokens) : tokens[i] = needle

Field(ident, ty) == [ident |-> ident, ty |-> ty]

\* syn::DeriveInput: data is the kind of item, fields the kind of its fields
DeriveInput(ident, data, fields, named) ==
    [ident |-> ident, data |-> data, fields |-> fields, named |-> named]

NoInput == [attr |-> <<>>, item |-> DeriveInput("-", "-", "-", <<>>)]

NoExpansion == [variant |-> "-"]

\* f.ident.as_ref().map_or(false, |i| i == "base"), first match of the iterator
find_base(named) ==
    LET hits == {i \in 1..Len(named) : named[i].ident = "base"}
    IN IF hits = {} THEN None
       ELSE Some(named[CHOOSE i \in hits : \A j \in hits : i <= j])

MacroError(message) == [variant |-> "Err", message |-> message]

process_html_writer(item, skip_docs) ==
    CASE item.data = "Enum" ->
           MacroError("html_writer can only be applied to structs, not enums")
      [] item.data = "Union" ->
           MacroError("html_writer can only be applied to structs, not unions")
      [] item.data = "Struct" /\ item.fields # "Named" ->
           MacroError("struct must have named fields")
      [] OTHER ->
           LET base_field == find_base(item.named)
           IN IF ~base_field.some
              THEN MacroError("struct must have a field named 'base'")
              ELSE IF ~contains(base_field.val.ty, "HtmlWriterBase")
              THEN MacroError("base field must be of type HtmlWriterBase<W>")
              ELSE [variant |-> "Ok",
                    docs |-> IF ~skip_docs
                             THEN <<"An HTML writer implementation.",
                                    "This type implements methods for writing HTML elements.">>
                             ELSE <<>>,
                    item |-> item,
                    impl |-> [trait |-> "HtmlWriter<W>",
                              for |-> item.ident,
                              get_writer |-> "self.base.get_writer()",
                              get_config |-> "self.base.get_config()",
                              get_state |-> "self.base.get_state()"]]

\* HtmlWriterBase<W>, plain and with its path
BaseTypes ==
    {<<"HtmlWriterBase", "<", "W", ">">>,
     <<"crate", "::", "html", "::", "HtmlWriterBase", "<", "W", ">">>}

\* types that are not HtmlWriterBase<W>
OtherTypes ==
    {<<"String">>, <<"W">>, <<"Vec", "<", "u8", ">">>,
     <<"My", "HtmlWriterBase", "<", "W", ">">>,
     <<"HtmlWriterBase", "Mock", "<", "W", ">">>,
     <<"Option", "<", "HtmlWriterBase", "<", "W", ">", ">">>}

NamedFields ==
    {<<>>, <<Field("writer", <<"W">>)>>}
    \cup {<<Field("base", t)>> : t \in BaseTypes \cup OtherTypes}
    \cup {<<Field("theme", <<"String">>), Field("base", t)>> : t \in BaseTypes \cup OtherTypes}
    \cup {<<Field("based", t)>> : t \in BaseTypes}

\* the items the attribute can be put on
Items ==
    {DeriveInput("Writer", "Struct", "Named", f) : f \in NamedFields}
    \cup {DeriveInput("Writer", "Struct", "Unnamed", <<>>),
          DeriveInput("Writer", "Struct", "Unit", <<>>),
          DeriveInput("Writer", "Enum", "-", <<>>)}
    \cup {DeriveInput("Writer", "Union", "Named", <<Field("base", t)>>) : t \in BaseTypes}

(***************************************************************************)
(* Render states a caller can hold (every field of HtmlState is pub)       *)
(***************************************************************************)
HtmlStates ==
    [numbers : {<<>>, <<1>>, <<3, 1>>},
     table_state : {"NotInTable", "InHeader", "InBody"},
     table_cell_index : 0..MaxCols,
     table_alignments : {<<>>, <<"Left", "None">>},
     list_stack : {<<>>, <<Unordered>>, <<Ordered(3), Unordered>>},
     link_stack : {<<>>, <<"Inline">>},
     heading_stack : {<<>>, <<(<<"heading-1">>)>>},
     currently_in_code_block : BOOLEAN,
     currently_in_footnote : BOOLEAN]

(***************************************************************************)
(* Specifications                                                          *)
(***************************************************************************)
InitRender(doc, setup) ==
    /\ events = doc
    /\ pos = 1
    /\ entry = setup[1]
    /\ config = setup[2]
    /\ state = HtmlState_new
    /\ out = <<>>
    /\ attempts = 0
    /\ pc = "running"
    /\ last = NoLast
    /\ dispatched = <<>>
    /\ ret = NoRet
    /\ stderr = <<>>
    /\ earlier = <<>>
    /\ rendered = <<>>
    /\ input = NoInput
    /\ expanded = NoExpansion
    /\ current_lang = None
    /\ arg = NoArg
    /\ result = NoResult
    /\ queue \in IF doc \in CoreSeqs(1) THEN Queues ELSE {<<>>}

\* every document under the main setups, the core documents under all setups
Renders ==
    {<<d, s>> : d \in Docs, s \in MainSetups}
    \cup {<<d, s>> : d \in CoreDocs, s \in Setups}
    \cup {<<d, s>> : d \in LinkDocs, s \in LinkSetups}
    \cup {<<d, s>> : d \in LaterDocs, s \in AttrSetups}
    \cup {<<d, s>> : d \in Headings, s \in NoIdSetups}

\* renders whose sink accepts every write
Init ==
    /\ \E r \in Renders : InitRender(r[1], r[2])
    /\ failAt = 0
    /\ sinkErr \in SinkErrors(entry)

\* renders whose sink may reject one write
InitSink ==
    /\ \E doc \in CoreDocs, setup \in Setups : InitRender(doc, setup)
    /\ failAt \in IF entry \in Fallible THEN 0..MaxFailAt ELSE {0}
    /\ sinkErr \in SinkErrors(entry)

Next ==
    \/ RunStart
    \/ RunEnd
    \/ RunText
    \/ RunCode
    \/ RunHtml
    \/ RunSoftBreak
    \/ RunHardBreak
    \/ RunRule
    \/ RunFootnoteReference
    \/ RunTaskListMarker
    \/ push_html
    \/ write_html_fmt
    \/ write_html_io
    \/ push_html_with_highlighting
    \/ NewRender

Spec == Init /\ [][Next]_vars

\* renders of code blocks through push_html_with_highlighting
InitHighlight ==
    /\ \E doc \in CodeDocs, setup \in HighlightSetups : InitRender(doc, setup)
    /\ failAt = 0
    /\ sinkErr \in SinkErrors(entry)

NextHighlight ==
    \/ RunStart
    \/ RunEnd
    \/ RunText
    \/ push_html_with_highlighting

SpecHighlight == InitHighlight /\ [][NextHighlight]_vars

\* event streams that end inside an image: what a caller's iterator yields
\* when it is cut short before the End of the image
TruncatedDocs ==
    UNION {{<<Start("Paragraph"), Text(TextA), StartImage(Dest, Title)>> \o SubSeq(x, 1, k) :
                k \in 0..Len(x)} :
           x \in AltSeqs(MaxCutNest)}

TruncatedSetups ==
    {<<"push_html", HtmlConfig_default>>, <<"write_html_fmt", CustomConfig>>}

InitTruncated ==
    /\ \E doc \in TruncatedDocs, setup \in TruncatedSetups : InitRender(doc, setup)
    /\ failAt = 0
    /\ sinkErr = "fmt::Error"

NextTruncated ==
    \/ RunStart
    \/ RunText
    \/ push_html
    \/ write_html_fmt

\* run is a sequential loop and the entry point returns after it: a step
\* that can be taken is taken
SpecTruncated == InitTruncated /\ [][NextTruncated]_vars /\ WF_vars(NextTruncated)

\* a Writer operation called by hand: one of those the renderer calls for an
\* event, or one of the definition-list operations
Call(op) == [Ev0 EXCEPT !.t = "Call", !.tag = op]

DefinitionListOps ==
    {"start_definition_list", "end_definition_list",
     "start_definition_list_title", "end_definition_list_title",
     "start_definition_list_definition", "end_definition_list_definition"}

WriterCalls ==
    {Start(t) : t \in {"Paragraph", "BlockQuote", "Emphasis", "Strong", "Strikethrough",
                       "Item", "TableHead", "TableRow", "TableCell"}}
    \cup {End(t) : t \in {"Paragraph", "BlockQuote", "Emphasis", "Strong", "Strikethrough",
                          "Item", "TableHead", "TableRow", "TableCell", "Link", "Image",
                          "Table", "CodeBlock", "FootnoteDefinition"}}
    \cup {StartLink(<<"h", "t", "t", "p", ":", "/", "/", "x">>, <<>>), StartImage(<<"u">>, <<"t">>),
          StartList(NoNum), StartList(Num(0, 3)), EndList(NoNum), EndList(Num(0, 3)),
          StartTable(<<"Left", "None">>), StartFootnoteDefinition(<<"n">>),
          StartHeading(2, None, <<>>, <<>>), StartHeading(1, Some(<<"x">>), <<(<<"c">>)>>, <<>>),
          EndHeading(2), StartCodeBlock("Fenced", <<"r", "s">>), StartCodeBlock("Indented", <<>>),
          Text(<<"a", "<">>), Code(<<"b">>), Html(<<"<i>">>), SoftBreak, HardBreak, Rule,
          FootnoteReference(<<"n">>), TaskListMarker(TRUE), TaskListMarker(FALSE)}
    \cup {Call(op) : op \in DefinitionListOps}

\* the operation of the call, applied to the writer
writer_call(w, c) ==
    CASE c.t # "Call" -> run_step(w, <<c>>, 1).w
      [] c.tag = "start_definition_list" -> start_definition_list(w)
      [] c.tag = "end_definition_list" -> end_definition_list(w)
      [] c.tag = "start_definition_list_title" -> start_definition_list_title(w)
      [] c.tag = "end_definition_list_title" -> end_definition_list_title(w)
      [] c.tag = "start_definition_list_definition" -> start_definition_list_definition(w)
      [] c.tag = "end_definition_list_definition" -> end_definition_list_definition(w)

\* a caller holds a state, modified by hand or by Writer operations
InitState ==
    /\ state \in HtmlStates
    /\ pc = "dirty"
    /\ events = <<>>
    /\ pos = 1
    /\ entry = "-"
    /\ config \in {HtmlConfig_default, CustomConfig}
    /\ out = <<>>
    /\ attempts = 0
    /\ failAt = 0
    /\ sinkErr = "fmt::Error"
    /\ last = [NoLast EXCEPT !.hs0 = state]
    /\ dispatched = <<>>
    /\ ret = NoRet
    /\ stderr = <<>>
    /\ queue = <<>>
    /\ earlier = <<>>
    /\ rendered = <<>>
    /\ input = NoInput
    /\ expanded = NoExpansion
    /\ current_lang = None
    /\ arg = NoArg
    /\ result = NoResult

\* state.reset()
reset ==
    /\ pc = "dirty"
    /\ state' = HtmlState_reset(state)
    /\ pc' = "reset"
    /\ UNCHANGED <<events, pos, config, out, attempts, failAt, sinkErr, entry, last,
                   dispatched, ret, stderr, queue, earlier, rendered, input, expanded,
                   current_lang, arg, result>>

\* the compiler meets #[html_writer] or #[html_writer(skip_docs)] on an item
InitMacro ==
    /\ input \in [attr : {<<>>, <<"skip_docs">>}, item : Items]
    /\ expanded = NoExpansion
    /\ current_lang = None
    /\ arg = NoArg
    /\ result = NoResult
    /\ pc = "macro"
    /\ state = HtmlState_new
    /\ events = <<>>
    /\ pos = 1
    /\ entry = "-"
    /\ config = HtmlConfig_default
    /\ out = <<>>
    /\ attempts = 0
    /\ failAt = 0
    /\ sinkErr = "fmt::Error"
    /\ last = NoLast
    /\ dispatched = <<>>
    /\ ret = NoRet
    /\ stderr = <<>>
    /\ queue = <<>>
    /\ earlier = <<>>
    /\ rendered = <<>>

\* the proc-macro entry point
html_writer ==
    /\ pc = "macro"
    /\ LET skip_docs == contains(input.attr, "skip_docs")
       IN expanded' = process_html_writer(input.item, skip_docs)
    /\ pc' = "expanded"
    /\ UNCHANGED <<events, pos, config, state, out, attempts, failAt, sinkErr, entry,
                   last, dispatched, ret, stderr, queue, earlier, rendered, input,
                   current_lang, arg, result>>

\* no render is going on and no function has returned
NothingRendered ==
    /\ result = NoResult
    /\ input = NoInput
    /\ expanded = NoExpansion
    /\ current_lang = None
    /\ state = HtmlState_new
    /\ events = <<>>
    /\ pos = 1
    /\ entry = "-"
    /\ config = HtmlConfig_default
    /\ out = <<>>
    /\ attempts = 0
    /\ failAt = 0
    /\ sinkErr = "fmt::Error"
    /\ last = NoLast
    /\ dispatched = <<>>
    /\ ret = NoRet
    /\ stderr = <<>>
    /\ queue = <<>>
    /\ earlier = <<>>
    /\ rendered = <<>>

\* the level_classes value of a configuration file is about to be loaded
InitDeserialize ==
    /\ arg \in JsonValues
    /\ pc = "deserialize"
    /\ NothingRendered

\* a caller is about to turn a text into an identifier
InitSanitize ==
    /\ arg \in [type : {"str"}, s : Strs(IdChars, MaxIdLen)]
    /\ pc = "sanitize"
    /\ NothingRendered

\* what a function applied on its own leaves alone
PureCall ==
    UNCHANGED <<events, pos, config, state, out, attempts, failAt, sinkErr, entry,
                last, dispatched, ret, stderr, queue, earlier, rendered, input,
                expanded, current_lang, arg>>

LoadLevelClasses ==
    /\ pc = "deserialize"
    /\ result' = deserialize_heading_map(arg)
    /\ pc' = "deserialized"
    /\ PureCall

\* one Writer operation on the state the caller holds
call ==
    /\ pc = "dirty"
    /\ \E c \in WriterCalls :
         LET w == writer_call(W, c)
         IN /\ state' = w.hs
            /\ current_lang' = w.lang
            /\ out' = w.out
            /\ attempts' = w.n
            /\ last' = [t |-> c.t, tag |-> c.tag, idx |-> 0, res |-> w.res,
                        from |-> Len(out), n0 |-> attempts, hs0 |-> state]
    /\ pc' = "called"
    /\ UNCHANGED <<events, pos, config, failAt, sinkErr, entry, dispatched, ret, stderr,
                   queue, earlier, rendered, input, expanded, arg, result>>

MakeId ==
    /\ pc = "sanitize"
    /\ result' = [variant |-> "String", s |-> sanitize_id(arg.s)]
    /\ pc' = "sanitized"
    /\ PureCall

InitUnit == InitState \/ InitMacro \/ InitDeserialize \/ InitSanitize

NextUnit ==
    \/ reset
    \/ html_writer
    \/ LoadLevelClasses
    \/ MakeId
    \/ call

\* operations a caller applies on their own: reset() on a state, and the
\* html_writer macro on an item
SpecUnit == InitUnit /\ [][NextUnit]_vars

SpecSink == InitSink /\ [][Next]_vars

(***************************************************************************)
(* What the event sequence says, independently of the writer               *)
(***************************************************************************)
IsStartOf(k, tag) == events[k].t = "Start" /\ events[k].tag = tag

IsEndOf(k, tag) == events[k].t = "End" /\ events[k].tag = tag

\* number of indexes in lo..hi that satisfy the test
CountOf(lo, hi, Test(_)) == Cardinality({k \in lo..hi : Test(k)})

\* Start events minus End events among events[lo..hi]
Balance(lo, hi) ==
    CountOf(lo, hi, LAMBDA k : events[k].t = "Start")
    - CountOf(lo, hi, LAMBDA k : events[k].t = "End")

\* the End that matches the Start at index i (Len(events) + 1 when there is none)
MatchEnd(i) ==
    LET closing == {j \in (i + 1)..Len(events) :
                        events[j].t = "End" /\ Balance(i + 1, j) = -1}
    IN IF closing = {} THEN Len(events) + 1
       ELSE CHOOSE j \in closing : \A k \in closing : j <= k

\* more Start(tag) than End(tag) among the events before index p
OpenBefore(p, tag) ==
    CountOf(1, p - 1, LAMBDA k : IsStartOf(k, tag))
    - CountOf(1, p - 1, LAMBDA k : IsEndOf(k, tag))

\* a table row has started since the latest table start before index i
RowSeen(i) ==
    \E r \in 1..(i - 1) :
        /\ IsStartOf(r, "TableRow")
        /\ \A t \in r..(i - 1) : ~IsStartOf(t, "Table")

Contribution(e) ==
    CASE e.t \in {"Text", "Code"} -> e.text
      [] e.t \in {"SoftBreak", "HardBreak"} -> <<" ">>
      [] OTHER -> <<>>

\* the alt text of the image that starts at index i
AltOf(i) == Flatten([j \in 1..(MatchEnd(i) - 1 - i) |-> Contribution(events[i + j])])

\* the indexes run has to dispatch, in order, from index k on
RECURSIVE ExpectedDispatch(_)
ExpectedDispatch(k) ==
    IF k > Len(events) THEN <<>>
    ELSE IF IsStartOf(k, "Image") THEN <<k>> \o ExpectedDispatch(MatchEnd(k) + 1)
    ELSE <<k>> \o ExpectedDispatch(k + 1)

\* the atoms the last Writer operation got into the sink
Written == SubSeq(out, last.from + 1, Len(out))

LastIs(t, tag) == last.t = t /\ last.tag = tag

(***************************************************************************)
(* Claims                                                                  *)
(***************************************************************************)

\* C1: start_table_cell opens <th exactly when the phase is InHeader, which is
\* for the cells started before the first start_table_row of their table, and
\* opens <td for every cell started after it.
C1_CellTag ==
    LastIs("Start", "TableCell") =>
        /\ Len(Written) >= 2
        /\ Written[1] = "<"
        /\ Written[2] \in {"th", "td"}
        /\ (Written[2] = "th") <=> in_table_header(state)
        /\ (Written[2] = "th") <=> ~RowSeen(last.idx)

\* a header cell of a table that follows a table whose body had rows
C1_Witness ==
    /\ LastIs("Start", "TableCell")
    /\ Written[2] = "th"
    /\ \E r \in 1..(last.idx - 1) : IsStartOf(r, "TableRow")

\* C2: within a table the phase only moves NotInTable -> InHeader, at
\* start_table, and InHeader -> InBody, at a start_table_row; it never moves
\* back to InHeader before end_table.
C2_PhaseMoves ==
    [][state'.table_state # state.table_state =>
         \/ /\ state.table_state = "NotInTable"
            /\ state'.table_state = "InHeader"
            /\ IsStartOf(pos, "Table")
         \/ /\ state.table_state = "InHeader"
            /\ state'.table_state = "InBody"
            /\ IsStartOf(pos, "TableRow")]_vars

\* C3: the phase is NotInTable (in_table() is false) after end_table, as it
\* was before the first table, and is not NotInTable while a table is open.
C3_NotInTableAfterEnd ==
    pc = "running" => (in_table(state) <=> OpenBefore(pos, "Table") > 0)

\* C4: the length of list_stack is the number of lists currently open.
C4_ListDepth ==
    pc = "running" => list_depth(state) = OpenBefore(pos, "List")

\* C5: the footnote flag is true exactly between start_footnote_definition and
\* its end_footnote_definition; start_paragraph and end_paragraph write
\* nothing while it is true and write <p ..> and </p> otherwise.
C5_Footnote ==
    /\ state.currently_in_footnote <=> OpenBefore(pos, "FootnoteDefinition") > 0
    /\ LastIs("Start", "Paragraph") =>
         IF OpenBefore(last.idx, "FootnoteDefinition") > 0
         THEN Written = <<>> /\ attempts = last.n0
         ELSE Written = <<"<p">> \o AttrString(ElementAttributes(config, "p")) \o <<">">>
    /\ LastIs("End", "Paragraph") =>
         IF OpenBefore(last.idx, "FootnoteDefinition") > 0
         THEN Written = <<>> /\ attempts = last.n0
         ELSE Written = <<"</p>">>

\* a paragraph started inside a footnote definition
C5_Witness ==
    /\ LastIs("Start", "Paragraph")
    /\ OpenBefore(last.idx, "FootnoteDefinition") > 0
    /\ state.currently_in_footnote
    /\ Written = <<>>

\* C6: the alt text of an image is the concatenation, in order, of the Text
\* and Code contents between the image Start and its matching End, with one
\* space per soft or hard break and nothing for any other event; collection
\* ends with the matching End, whatever the nesting in between.
C6_AltText ==
    LastIs("Start", "Image") =>
        LET e == events[last.idx]
        IN /\ Written =
                <<"<img src=\"">> \o escape_href(e.dest) \o <<"\" alt=\"">>
                \o escape_html(AltOf(last.idx)) \o <<"\"">>
                \o (IF e.title # <<>>
                    THEN <<" title=\"">> \o escape_html(e.title) \o <<"\"">>
                    ELSE <<>>)
                \o AttrString(ElementAttributes(config, "img"))
                \o (IF config.xhtml_style THEN <<" />">> ELSE <<">">>)
           /\ pos = MatchEnd(last.idx) + 1

\* an image whose alt content nests two levels deep and has a break in it
C6_Witness ==
    /\ LastIs("Start", "Image")
    /\ \E j \in (last.idx + 1)..(pos - 1) :
          /\ events[j].t = "Start"
          /\ Balance(last.idx + 1, j) = 2
    /\ \E j \in (last.idx + 1)..(pos - 1) : events[j].t \in {"SoftBreak", "HardBreak"}
    /\ AltOf(last.idx) # <<>>

\* C7: run dispatches every event once and in order, except that the events
\* between an image Start and its matching End, that End included, are not
\* dispatched, and the event after that End is the next one dispatched.
C7_DispatchOrder ==
    LET expected == ExpectedDispatch(1)
        n == Len(dispatched)
    IN /\ n <= Len(expected)
       /\ dispatched = SubSeq(expected, 1, n)
       /\ pc = "running" =>
            pos = IF n < Len(expected) THEN expected[n + 1] ELSE Len(events) + 1

\* the event after an image's End is dispatched right after the image Start
C7_Witness ==
    /\ Len(dispatched) >= 2
    /\ IsStartOf(dispatched[Len(dispatched) - 1], "Image")
    /\ Last(dispatched) = MatchEnd(dispatched[Len(dispatched) - 1]) + 1
    /\ Last(dispatched) > dispatched[Len(dispatched) - 1] + 2

\* the sink has rejected a write
Rejected == failAt # 0 /\ attempts >= failAt

\* C8: once the sink has rejected a write the render stops: no further write
\* is attempted, no later event is dispatched, and the caller gets the error.
C8_AbortOnRejectedWrite ==
    Rejected =>
        /\ attempts = failAt
        /\ last.n0 < failAt
        /\ pc = "done" => ret.kind = "Err"

\* C9: the error a Writer operation hands up for a rejected write is the
\* sink's own error value.
C9_ErrorUnchanged ==
    last.res.variant = "Write" => last.res.inner = sinkErr

\* C10: a configuration naming a theme that does not exist is reported as a
\* Configuration error before any output is produced; it is neither ignored
\* nor logged as a warning.
C10_UnknownTheme ==
    (entry = "push_html_with_highlighting" /\ config.syntect.some
        /\ config.syntect.theme \notin ThemeSet) =>
        /\ out = <<>>
        /\ stderr = <<>>
        /\ pc = "done" => ret.kind = "ConfigError"

\* the writer a first render of the event sequence ends with
FirstRender(evs) ==
    run([hs |-> HtmlState_new, out |-> <<>>, n |-> 0, res |-> Ok, lang |-> None], evs, 1)

\* C11: every render starts from a freshly initialised state: a render that
\* follows earlier renders with the same configuration starts with the state
\* of HtmlState::new(), whatever the earlier renders left behind, and ends
\* with exactly the output and state the same events give as a first render.
C11_FreshState ==
    /\ (pc = "running" /\ dispatched = <<>>) => state = HtmlState_new
    /\ pc = "done" =>
         /\ out = FirstRender(events).out
         /\ state = FirstRender(events).hs

\* a later render has finished after an earlier one left list, table,
\* heading or footnote state behind
C11_Witness ==
    /\ pc = "done"
    /\ earlier # <<>>
    /\ Last(earlier) # HtmlState_new
    /\ out # <<>>
    /\ state # HtmlState_new

\* C12: with add_ids enabled, start_heading of every level 1..6 writes an id
\* attribute whose value is the explicit id of the event when there is one
\* and otherwise id_prefix followed by the level number, and pushes that id
\* onto heading_stack; the id depends on nothing else, so two headings of the
\* same level get the same id.
C12_HeadingId ==
    (LastIs("Start", "Heading") /\ config.add_ids) =>
        LET e == events[last.idx]
            expected == IF e.id.some THEN e.id.val
                        ELSE config.id_prefix \o <<ToString(e.level)>>
            k == Len(expected)
        IN /\ e.level \in 1..6
           /\ Len(Written) >= k + 4
           /\ SubSeq(Written, 1, 3) = <<"<h", ToString(e.level), " id=\"">>
           /\ SubSeq(Written, 4, k + 3) = escape_html(expected)
           /\ Written[k + 4] = "\""
           /\ state.heading_stack = Append(last.hs0.heading_stack, expected)

\* a second heading of the same level, without explicit id, got the id of the
\* first one
C12_Witness ==
    /\ LastIs("Start", "Heading")
    /\ config.add_ids
    /\ ~events[last.idx].id.some
    /\ \E j \in 1..(last.idx - 1) :
          /\ IsStartOf(j, "Heading")
          /\ events[j].level = events[last.idx].level
          /\ ~events[j].id.some
    /\ Len(state.heading_stack) >= 2
    /\ state.heading_stack[Len(state.heading_stack) - 1] = Last(state.heading_stack)

\* C13: for every ordered list with starting number n, start_list writes a
\* start attribute, with value n, if and only if n # 1; a list event without
\* starting number opens <ul and never carries a start attribute.
C13_StartAttribute ==
    LastIs("Start", "List") =>
        LET num == events[last.idx].num
            is_one == num.hi = 0 /\ num.lo = 1
            has_start == \E i \in 1..Len(Written) : Written[i] = " start=\""
        IN /\ Len(Written) >= 2
           /\ Written[1] = IF num.some THEN "<ol" ELSE "<ul"
           /\ Last(Written) = ">"
           /\ has_start <=> (num.some /\ ~is_one)
           /\ (has_start /\ num.hi = 0) =>
                SubSeq(Written, 2, 4) = <<" start=\"", ToString(num.lo), "\"">>

\* the destination begins with the literal text http:// or https://
HasExternalPrefix(dest) ==
    \E k \in {7, 8} : k <= Len(dest) /\ SubSeq(dest, 1, k) \in {Http, Https}

\* C14: start_link writes rel="nofollow" if and only if the destination
\* starts with http:// or https:// and nofollow_external is set, and writes
\* target="_blank" if and only if it has such a prefix and
\* open_external_blank is set; the two are decided independently, and any
\* other destination gets neither, whatever the flags.
C14_LinkPolicy ==
    LastIs("Start", "Link") =>
        LET dest == events[last.idx].dest
            rel == \E i \in 1..Len(Written) : Written[i] = "\" rel=\"nofollow"
            target == \E i \in 1..Len(Written) : Written[i] = "\" target=\"_blank"
        IN /\ rel <=> (HasExternalPrefix(dest) /\ config.nofollow_external)
           /\ target <=> (HasExternalPrefix(dest) /\ config.open_external_blank)
           /\ Written[1] = "<a href=\""
           /\ Last(Written) = ">"

\* an external link that got the blank target without the nofollow relation
C14_Witness ==
    /\ LastIs("Start", "Link")
    /\ HasExternalPrefix(events[last.idx].dest)
    /\ ~config.nofollow_external
    /\ config.open_external_blank
    /\ \E i \in 1..Len(Written) : Written[i] = "\" target=\"_blank"

\* C15: start_code_block resolves the language token as the fence info
\* string when the block is fenced and the string is non-empty, and as the
\* configured default language otherwise (always, for an indented block); it
\* writes class="language-<token>" if and only if a token results.
C15_CodeLanguage ==
    LastIs("Start", "CodeBlock") =>
        LET e == events[last.idx]
            token == IF e.kind = "Fenced" /\ e.info # <<>> THEN Some(e.info)
                     ELSE config.default_language
        IN Written =
            <<"<pre">> \o AttrString(ElementAttributes(config, "pre")) \o <<"><code">>
            \o (IF token.some
                THEN <<" class=\"language-">> \o token.val \o <<"\"">>
                ELSE <<>>)
            \o AttrString(ElementAttributes(config, "code")) \o <<">">>

\* a fenced block with an info string, rendered with a default language set
C15_Witness ==
    /\ LastIs("Start", "CodeBlock")
    /\ events[last.idx].kind = "Fenced"
    /\ events[last.idx].info # <<>>
    /\ config.default_language.some
    /\ config.default_language.val # events[last.idx].info

\* C16: the code-block flag is true exactly while a code block is open:
\* start_code_block sets it, end_code_block writes </code></pre> and clears
\* it, so it is false for every event after the end of a code block.
C16_CodeBlockFlag ==
    /\ state.currently_in_code_block <=> OpenBefore(pos, "CodeBlock") > 0
    /\ LastIs("End", "CodeBlock") =>
         /\ Written = <<"</code></pre>">>
         /\ ~state.currently_in_code_block

\* the entity of a character that has to be escaped in text
Entities(c) ==
    CASE c = "<" -> {"&lt;"}
      [] c = ">" -> {"&gt;"}
      [] c = "&" -> {"&amp;"}
      [] c = "\"" -> {"&quot;"}
      [] c = "'" -> {"&#x27;", "&#39;", "&apos;"}
      [] OTHER -> {c}

\* C17: text writes its input with each of < > & " ' replaced by its
\* entity, once, if and only if escape_html is enabled, and verbatim when it
\* is disabled; input that is escaped already is escaped again; a raw-markup
\* event is written verbatim under both settings.
C17_TextEscaping ==
    /\ last.t = "Text" =>
         LET s == events[last.idx].text
         IN IF config.escape_html
            THEN /\ Len(Written) = Len(s)
                 /\ \A i \in 1..Len(s) : Written[i] \in Entities(s[i])
            ELSE Written = s
    /\ last.t = "Html" => Written = events[last.idx].text

\* the percent-encoding of the unsafe characters of a destination
PercentEncoded(c) ==
    CASE c = "<" -> "%3C"
      [] c = ">" -> "%3E"
      [] c = "\"" -> "%22"
      [] c = "'" -> "%27"
      [] c = " " -> "%20"
      [] c = "\n" -> "%0A"
      [] c = "\r" -> "%0D"
      [] c = "\t" -> "%09"
      [] OTHER -> c

\* C18: the destination of a link or an image is URL-escaped whatever
\* escape_html is: each of < > " ' space, newline, carriage return and tab is
\* written percent-encoded and every other character, & ? and = included, is
\* written unchanged.
C18_HrefEscaping ==
    (LastIs("Start", "Link") \/ LastIs("Start", "Image")) =>
        LET dest == events[last.idx].dest
        IN /\ Len(Written) > Len(dest)
           /\ Written[1] = IF last.tag = "Link" THEN "<a href=\"" ELSE "<img src=\""
           /\ SubSeq(Written, 2, Len(dest) + 1) =
                [i \in 1..Len(dest) |-> PercentEncoded(dest[i])]

\* the tag name an opening tag with computed attributes is written under
OpeningTagName(e, hs0) ==
    CASE e.tag = "Heading" -> HeadingTag(e.level)
      [] e.tag = "CodeBlock" -> "code"
      [] e.tag = "Link" -> "a"
      [] e.tag = "TableCell" -> IF hs0.table_state = "InHeader" THEN "th" ELSE "td"

\* name="value" pairs the heading event carries, as written
RECURSIVE EventAttrs(_)
EventAttrs(attrs) ==
    IF attrs = <<>> THEN <<>>
    ELSE <<" ">> \o escape_html(Head(attrs)[1])
         \o (IF Head(attrs)[2].some
             THEN <<"=\"">> \o escape_html(Head(attrs)[2].val) \o <<"\"">>
             ELSE <<>>)
         \o EventAttrs(Tail(attrs))

\* the opening tag up to and including its computed attributes
ComputedPart(e, hs0) ==
    CASE e.tag = "Heading" ->
           LET id == IF e.id.some THEN e.id.val
                     ELSE config.id_prefix \o <<ToString(e.level)>>
               classes == (IF e.level \in DOMAIN config.level_classes
                           THEN <<config.level_classes[e.level]>> ELSE <<>>)
                          \o e.classes
           IN <<"<h", ToString(e.level)>>
              \o (IF config.add_ids
                  THEN <<" id=\"">> \o escape_html(id) \o <<"\"">> ELSE <<>>)
              \o (IF classes # <<>>
                  THEN <<" class=\"">> \o escape_html(join(classes, <<" ">>)) \o <<"\"">>
                  ELSE <<>>)
              \o EventAttrs(e.attrs)
      [] e.tag = "CodeBlock" ->
           LET token == IF e.kind = "Fenced" /\ e.info # <<>> THEN Some(e.info)
                        ELSE config.default_language
           IN <<"<pre">> \o AttrString(ElementAttributes(config, "pre")) \o <<"><code">>
              \o (IF token.some
                  THEN <<" class=\"language-">> \o token.val \o <<"\"">> ELSE <<>>)
      [] e.tag = "Link" ->
           <<"<a href=\"">> \o escape_href(e.dest)
           \o (IF e.title # <<>> THEN <<"\" title=\"">> \o escape_html(e.title) ELSE <<>>)
           \o (IF HasExternalPrefix(e.dest) /\ config.nofollow_external
               THEN <<"\" rel=\"nofollow">> ELSE <<>>)
           \o (IF HasExternalPrefix(e.dest) /\ config.open_external_blank
               THEN <<"\" target=\"_blank">> ELSE <<>>)
           \o <<"\"">>
      [] e.tag = "TableCell" ->
           LET column == hs0.table_cell_index + 1
               alignment == IF column \in DOMAIN hs0.table_alignments
                            THEN hs0.table_alignments[column] ELSE "None"
           IN <<"<", OpeningTagName(e, hs0)>>
              \o (CASE alignment = "Left" -> <<" style=\"text-align: left\"">>
                    [] alignment = "Center" -> <<" style=\"text-align: center\"">>
                    [] alignment = "Right" -> <<" style=\"text-align: right\"">>
                    [] OTHER -> <<>>)

\* C19: in the opening tag of a heading, a code block, a link and a table
\* cell the configured attribute pairs of the tag name come after all
\* computed attributes (heading: id, class, event attributes; code: language
\* class; link: href, title, rel, target; cell: alignment style) and right
\* before the closing >; a configured attribute with the name of a computed
\* one is neither merged nor dropped.
C19_ConfiguredAttributesLast ==
    (last.t = "Start" /\ last.tag \in {"Heading", "CodeBlock", "Link", "TableCell"}) =>
        LET e == events[last.idx]
        IN Written =
            ComputedPart(e, last.hs0)
            \o AttrString(ElementAttributes(config, OpeningTagName(e, last.hs0)))
            \o <<">">>

\* a heading whose computed class is followed by a configured class
C19_Witness ==
    /\ LastIs("Start", "Heading")
    /\ events[last.idx].classes # <<>>
    /\ \E i, j \in 1..Len(Written) :
          /\ i < j
          /\ Written[i] = " class=\""
          /\ Written[j] = "class"
          /\ Written[j + 1] = "=\""

\* the tag names of the elements the operation for event e opens
OpenedBy(e, hs0) ==
    CASE e.t = "Start" ->
           (CASE e.tag = "Paragraph" ->
                   IF hs0.currently_in_footnote THEN {} ELSE {"p"}
              [] e.tag = "Heading" -> {HeadingTag(e.level)}
              [] e.tag = "BlockQuote" -> {"blockquote"}
              [] e.tag = "CodeBlock" -> {"pre", "code"}
              [] e.tag = "List" -> IF e.num.some THEN {"ol"} ELSE {"ul"}
              [] e.tag = "Item" -> {"li"}
              [] e.tag = "FootnoteDefinition" -> {"div", "sup"}
              [] e.tag = "Table" -> {"table"}
              [] e.tag = "TableHead" -> {"thead", "tr"}
              [] e.tag = "TableRow" -> {"tr"}
              [] e.tag = "TableCell" -> {OpeningTagName(e, hs0)}
              [] e.tag = "Emphasis" -> {"em"}
              [] e.tag = "Strong" -> {"strong"}
              [] e.tag = "Strikethrough" -> {"del"}
              [] e.tag = "Link" -> {"a"}
              [] e.tag = "Image" -> {"img"})
      [] e.t = "End" -> IF e.tag = "TableHead" THEN {"tbody"} ELSE {}
      [] e.t = "Code" -> {"code"}
      [] e.t = "SoftBreak" -> IF config.break_on_newline THEN {"br"} ELSE {}
      [] e.t = "HardBreak" -> {"br"}
      [] e.t = "Rule" -> {"hr"}
      [] e.t = "FootnoteReference" -> {"sup", "a"}
      [] e.t = "TaskListMarker" -> {"input"}
      [] OTHER -> {}

\* the configured attributes of the tag name are part of what was written
WrittenHasAttributesOf(name) ==
    LET a == AttrString(ElementAttributes(config, name))
    IN a = <<>> \/ \E i \in 1..Len(Written) :
                      /\ i + Len(a) - 1 <= Len(Written)
                      /\ SubSeq(Written, i, i + Len(a) - 1) = a

\* C20: for every element the writer emits, the configured attribute map of
\* its tag name is appended to its opening tag: a configuration entry for any
\* emitted tag name is never left out of the output.
C20_AttributesNeverLeftOut ==
    (last.t # "-" /\ last.res = Ok) =>
        \A name \in OpenedBy(events[last.idx], last.hs0) : WrittenHasAttributesOf(name)

C22_VoidElementStyle ==
    /\ (LastIs("Start", "Image") /\ last.res = Ok) =>
         Last(Written) = IF config.xhtml_style THEN " />" ELSE ">"
    /\ ((last.t = "HardBreak" \/ (last.t = "SoftBreak" /\ config.break_on_newline))
          /\ last.res = Ok) =>
         Written = IF config.xhtml_style THEN <<"<br />">> ELSE <<"<br>">>

\* the name of the opening tag written for the cell that starts at index i
OpenedCellName(i) == IF RowSeen(i) THEN "td" ELSE "th"

\* the Start that the End at index j matches (0 when there is none)
MatchStart(j) ==
    LET opening == {i \in 1..(j - 1) : events[i].t = "Start" /\ MatchEnd(i) = j}
    IN IF opening = {} THEN 0 ELSE CHOOSE i \in opening : TRUE

\* C23: a table is written properly nested: the closing tag of each cell has
\* the name of its opening tag (</th> for a header cell, </td> for a body
\* cell), and the table reads <table><thead><tr>..</tr></thead><tbody>..
\* </tbody></table>.
C23_TableNesting ==
    /\ LastIs("End", "TableCell") =>
         Written = <<"</" \o OpenedCellName(MatchStart(last.idx)) \o ">">>
    /\ LastIs("Start", "TableHead") => Written = <<"<thead><tr>">>
    /\ LastIs("End", "TableHead") => Written = <<"</tr></thead><tbody>">>
    /\ LastIs("Start", "TableRow") => Written = <<"<tr>">>
    /\ LastIs("End", "TableRow") => Written = <<"</tr>">>
    /\ LastIs("End", "Table") => Written = <<"</tbody></table>">>

\* C24: reset() resets all state: after it, whatever the state was before,
\* every field (number stack, table phase, cell index, alignments, list
\* stack, link stack, heading stack, code-block flag, footnote flag) has the
\* value it has in a state created by new().
C24_ResetAll ==
    pc = "reset" => state = HtmlState_new

LineBreakElement == {<<"<br>">>, <<"<br />">>, <<"<br/>">>}

ValidWriterItem(item) ==
    /\ item.data = "Struct"
    /\ item.fields = "Named"
    /\ \E i \in 1..Len(item.named) :
          item.named[i].ident = "base" /\ item.named[i].ty \in BaseTypes

\* C27: the html_writer macro accepts an item only if it is a struct with
\* named fields that has a field base of type HtmlWriterBase<W>; an enum, a
\* union, a tuple or unit struct, a struct without base and a struct whose
\* base has another type are rejected with a compile error; an accepted item
\* is emitted unchanged, with an HtmlWriter implementation whose get_writer,
\* get_config and get_state delegate to base.
C27_MacroAcceptance ==
    pc = "expanded" =>
        IF ValidWriterItem(input.item)
        THEN /\ expanded.variant = "Ok"
             /\ expanded.item = input.item
             /\ expanded.impl.for = input.item.ident
             /\ expanded.impl.get_writer = "self.base.get_writer()"
             /\ expanded.impl.get_config = "self.base.get_config()"
             /\ expanded.impl.get_state = "self.base.get_state()"
        ELSE expanded.variant = "Err"

\* the latest index before i at which a table head or a table row starts
RowStartBefore(i) ==
    LET starts == {r \in 1..(i - 1) : IsStartOf(r, "TableHead") \/ IsStartOf(r, "TableRow")}
    IN IF starts = {} THEN 0 ELSE CHOOSE r \in starts : \A q \in starts : q <= r

\* number of cells started since the latest start of a head or row before i
CellsSince(i) ==
    CountOf(RowStartBefore(i) + 1, i - 1, LAMBDA k : IsStartOf(k, "TableCell"))

\* the alignment list of the table the event at index i lies in
AlignmentsAt(i) ==
    LET tables == {t \in 1..(i - 1) : IsStartOf(t, "Table")}
    IN IF tables = {} THEN <<>>
       ELSE events[CHOOSE t \in tables : \A q \in tables : q <= t].aligns

\* C28: at every start_table_cell the column index is the number of cells
\* started since the latest start_table_head or start_table_row, in header
\* and body alike, and grows by one; the cell gets text-align left, center
\* or right for the alignment at that index and no style for an unset
\* alignment or an index at or beyond the length of the alignment list, in
\* which case there is no error and the index still grows.
C28_ColumnIndex ==
    LastIs("Start", "TableCell") =>
        LET idx == CellsSince(last.idx)
            aligns == AlignmentsAt(last.idx)
            style == IF idx < Len(aligns)
                     THEN CASE aligns[idx + 1] = "Left" -> <<" style=\"text-align: left\"">>
                            [] aligns[idx + 1] = "Center" -> <<" style=\"text-align: center\"">>
                            [] aligns[idx + 1] = "Right" -> <<" style=\"text-align: right\"">>
                            [] OTHER -> <<>>
                     ELSE <<>>
            name == Written[2]
        IN /\ last.hs0.table_cell_index = idx
           /\ state.table_cell_index = idx + 1
           /\ last.res = Ok
           /\ Written = <<"<", name>> \o style
                         \o AttrString(ElementAttributes(config, name)) \o <<">">>

\* a second body cell that lies beyond the alignment list of its table, in a
\* table that follows another table
C28_Witness ==
    /\ LastIs("Start", "TableCell")
    /\ RowSeen(last.idx)
    /\ last.hs0.table_cell_index = 1
    /\ Len(state.table_alignments) = 1
    /\ state.table_cell_index = 2
    /\ Cardinality({t \in 1..last.idx : IsStartOf(t, "Table")}) = 2

\* C29: immediately after start_table, whatever the state was before (the
\* state an earlier table of the document left behind included), the table
\* phase is InHeader, table_alignments is the alignment list of the event
\* and the column index is 0.
C29_StartTable ==
    LastIs("Start", "Table") =>
        /\ state.table_state = "InHeader"
        /\ state.table_alignments = events[last.idx].aligns
        /\ state.table_cell_index = 0

\* C30: the depth of heading_stack tracks the nesting of headings:
\* start_heading pushes one id and the matching end_heading pops it, so the
\* length never exceeds the number of headings currently open and the stack
\* is empty after any sequence of complete headings.
C30_HeadingStackDepth ==
    /\ Len(state.heading_stack) <= OpenBefore(pos, "Heading")
    /\ LastIs("End", "Heading") =>
         Len(state.heading_stack) = Len(last.hs0.heading_stack) - 1

\* the classes of the heading event e: the class configured for its level,
\* if any, then the classes of the event in event order
HeadingClassList(e) ==
    (IF e.level \in DOMAIN config.level_classes
     THEN <<config.level_classes[e.level]>> ELSE <<>>) \o e.classes

\* the class list with one space between two classes
RECURSIVE SpaceJoined(_)
SpaceJoined(list) ==
    IF list = <<>> THEN <<>>
    ELSE IF Len(list) = 1 THEN list[1]
    ELSE list[1] \o <<" ">> \o SpaceJoined(Tail(list))

\* C31: the class attribute of a heading is the class configured for its
\* level (when there is one) followed by the classes of the event, in event
\* order, joined by single spaces, and is left out when that list is empty;
\* the opening tag is h<level> and the closing tag has the same level.
C31_HeadingClasses ==
    /\ LastIs("Start", "Heading") =>
         LET e == events[last.idx]
             list == HeadingClassList(e)
             value == escape_html(SpaceJoined(list))
             at == {i \in 1..Len(Written) : Written[i] = " class=\""}
         IN /\ SubSeq(Written, 1, 2) = <<"<h", ToString(e.level)>>
            /\ Cardinality(at) = IF list = <<>> THEN 0 ELSE 1
            /\ \A i \in at :
                  /\ SubSeq(Written, i + 1, i + Len(value)) = value
                  /\ Written[i + Len(value) + 1] = "\""
    /\ LastIs("End", "Heading") =>
         /\ MatchStart(last.idx) > 0
         /\ Written = <<"</", "h", ToString(events[MatchStart(last.idx)].level), ">">>

\* a heading with a class configured for its level and two classes of its own
C31_Witness ==
    /\ LastIs("Start", "Heading")
    /\ events[last.idx].level \in DOMAIN config.level_classes
    /\ Len(events[last.idx].classes) = 2
    /\ \E i \in 1..Len(Written) : Written[i] = " class=\""

\* the language token of the code block event e: the fence info string if
\* there is one, else the configured default language
ResolvedLanguage(e) ==
    IF e.kind = "Fenced" /\ e.info # <<>> THEN Some(e.info) ELSE config.default_language

\* the index of the latest Start(CodeBlock) before index i
CodeBlockBefore(i) ==
    LET starts == {k \in 1..(i - 1) : IsStartOf(k, "CodeBlock")}
    IN CHOOSE k \in starts : \A q \in starts : q <= k

\* C32: the highlighting writer agrees with the default writer on the
\* language of a code block: the language-<token> class it writes and the
\* token it hands to the highlighting hook are the resolved token (fence info
\* string if non-empty, else the configured default language); the hook gets
\* the raw text of the block and its result is written as it is.
C32_HighlightLanguage ==
    /\ (UsesSyntectWriter /\ LastIs("Start", "CodeBlock")) =>
         LET token == ResolvedLanguage(events[last.idx])
         IN /\ current_lang = token
            /\ Written =
                 <<"<pre">> \o AttrString(ElementAttributes(config, "pre")) \o <<"><code">>
                 \o (IF token.some
                     THEN <<" class=\"language-">> \o token.val \o <<"\"">> ELSE <<>>)
                 \o AttrString(ElementAttributes(config, "code")) \o <<">">>
    /\ (UsesSyntectWriter /\ last.t = "Text" /\ OpenBefore(last.idx, "CodeBlock") > 0) =>
         Written = highlight_code(events[last.idx].text,
                                  ResolvedLanguage(events[CodeBlockBefore(last.idx)]))

\* the key is a decimal integer in 1..6
KeyIsLevel(k) == parse_u8(k).ok /\ parse_u8(k).val \in 1..6

\* C33: loading the level-class table fails with an error, and yields no
\* partial table, when the value is not a map, when some key does not parse
\* as an integer in 1..6 or when some value is not a string; otherwise the
\* table has exactly the entries of the input, keyed by level.
C33_LevelClassTable ==
    pc = "deserialized" =>
        IF \/ arg.type # "Object"
           \/ \E i \in 1..Len(arg.entries) :
                 ~KeyIsLevel(arg.entries[i][1]) \/ arg.entries[i][2].type # "String"
        THEN result.variant = "Err" /\ "table" \notin DOMAIN result
        ELSE /\ result.variant = "Ok"
             /\ Cardinality(DOMAIN result.table) = Len(arg.entries)
             /\ \A i \in 1..Len(arg.entries) :
                   LET level == parse_u8(arg.entries[i][1]).val
                   IN level \in DOMAIN result.table
                      /\ result.table[level] = arg.entries[i][2].s

\* the positions of the alphanumeric characters of a string, in order
AlnumPositions(str) ==
    LET P == {i \in 1..Len(str) : is_alphanumeric(str[i])}
    IN CHOOSE f \in [1..Cardinality(P) -> P] :
           \A a, b \in 1..Cardinality(P) : a < b => f[a] < f[b]

U64ToString(num) ==
    IF num.hi = 0 THEN ToString(num.lo)
    ELSE ToString(num.hi) \o "*2^32+" \o ToString(num.lo)

\* C35: start_list completes without a panic for every starting number an
\* event can carry, those above the 32-bit maximum included, and the start
\* attribute it writes is the full 64-bit number.
C35_StartListTotal ==
    (LastIs("Start", "List") /\ events[last.idx].num.some) =>
        LET num == events[last.idx].num
        IN /\ last.res # Panic
           /\ ~(num.hi = 0 /\ num.lo = 1) =>
                 /\ Len(Written) >= 4
                 /\ SubSeq(Written, 2, 4) = <<" start=\"", U64ToString(num), "\"">>

\* the operation called last is one of those said to leave the state alone
FrameOperation ==
    \/ last.t \in {"Start", "End"}
       /\ last.tag \in {"Paragraph", "BlockQuote", "Emphasis", "Strong",
                        "Strikethrough", "Link", "Item"}
    \/ last.t \in {"Text", "Code", "Html", "SoftBreak", "HardBreak", "Rule",
                   "TaskListMarker", "FootnoteReference"}
    \/ last.t = "Call" /\ last.tag \in DefinitionListOps

\* the operation called last belongs to a family that keeps state
StateOperation ==
    /\ last.t \in {"Start", "End"}
    /\ last.tag \in {"List", "Table", "TableHead", "TableRow", "TableCell", "Heading",
                     "CodeBlock", "FootnoteDefinition"}

ImageCutShort == LastIs("Start", "Image") /\ MatchEnd(last.idx) > Len(events)

\* C37: alt-text collection always terminates: on a stream that ends before
\* the End of the image it stops when the stream is exhausted and returns the
\* text gathered so far; the render then finishes with the image tag written
\* and no further event dispatched; the nesting counter is never below 0.
C37_AltTextTerminates ==
    /\ [](ImageCutShort =>
            LET e == events[last.idx]
            IN /\ pos = Len(events) + 1
               /\ Written =
                     <<"<img src=\"">> \o escape_href(e.dest) \o <<"\" alt=\"">>
                     \o escape_html(AltOf(last.idx)) \o <<"\"">>
                     \o (IF e.title # <<>>
                         THEN <<" title=\"">> \o escape_html(e.title) \o <<"\"">>
                         ELSE <<>>)
                     \o AttrString(ElementAttributes(config, "img"))
                     \o (IF config.xhtml_style THEN <<" />">> ELSE <<">">>)
               /\ Last(dispatched) = last.idx
               /\ LET nests == collect_alt_nests(events, last.idx + 1, 0)
                  IN \A i \in 1..Len(nests) : nests[i] >= 0)
    /\ <>(pc = "done" /\ ret.kind # "Err")

\* the stream ended inside an element nested in the image, after some text
C37_Witness ==
    /\ pc = "done"
    /\ ImageCutShort
    /\ Balance(last.idx + 1, Len(events)) > 0
    /\ AltOf(last.idx) # <<>>

\* C38: with add_ids disabled, start_heading writes no id attribute, not even
\* the explicit id of the event, and leaves heading_stack as it was; the
\* class, the attributes of the event and the configured attributes are
\* written as they are with add_ids enabled.
C38_NoHeadingId ==
    (LastIs("Start", "Heading") /\ ~config.add_ids) =>
        LET e == events[last.idx]
            list == HeadingClassList(e)
        IN /\ \A i \in 1..Len(Written) : Written[i] # " id=\""
           /\ state.heading_stack = last.hs0.heading_stack
           /\ Written =
                 <<"<h", ToString(e.level)>>
                 \o (IF list # <<>>
                     THEN <<" class=\"">> \o escape_html(SpaceJoined(list)) \o <<"\"">>
                     ELSE <<>>)
                 \o EventAttrs(e.attrs)
                 \o AttrString(ElementAttributes(config, HeadingTag(e.level)))
                 \o <<">">>

\* a heading with an explicit id, classes and attributes, ids turned off
C38_Witness ==
    /\ LastIs("Start", "Heading")
    /\ config = NoIds(CustomConfig)
    /\ events[last.idx].id.some
    /\ events[last.idx].classes # <<>>
    /\ events[last.idx].attrs # <<>>
    /\ events[last.idx].level = 1

====
